---------------------------- MODULE Spec2Model ----------------------------
(***************************************************************************)
(* A state-machine model of the wallet core of unicorn-research/app:       *)
(*   - BalanceManager      (src/api/src/wallet/balance.rs)                 *)
(*   - TransactionBuilder  (src/api/src/wallet/transaction.rs)             *)
(*   - TransactionManager  (src/api/src/wallet/transaction.rs)             *)
(*   - Block / merkle root (src/api/src/wallet/mod.rs)                     *)
(*   - Address             (src/api/src/wallet/mod.rs)                     *)
(*   - NockchainKeyManager (src/api/src/wallet/keys.rs)                    *)
(*   - NockchainNodeRunner, NodeLockfile, NockchainNodeManager             *)
(*                         (src/api/src/wallet/network.rs)                 *)
(*   - the Node page       (src/desktop/src/main.rs)                       *)
(*                                                                         *)
(* Every method is a pure operator that computes what the Rust code        *)
(* computes, and an action that applies it to the state.  The components   *)
(* do not call each other in the source, so each has a specification of    *)
(* its own over the shared variables:                                      *)
(*   Spec         the BalanceManager (add_note / spend_note)               *)
(*   SpecBuilder  the TransactionBuilder                                   *)
(*   SpecTxm      the TransactionManager                                   *)
(*   SpecWallet   BalanceManager and TransactionManager side by side       *)
(*   SpecBlock    Block::new, field updates and Block::validate            *)
(*   SpecMine     Block::new, Block::mine pass by pass, Block::validate     *)
(*   SpecHash     meets_difficulty, difficulty_to_target and               *)
(*                calculate_merkle_root called on their own                *)
(*   SpecNotes    the BalanceManager with get_spendable_notes              *)
(*   SpecKeys     the NockchainKeyManager                                  *)
(*   SpecSign     a TransactionBuilder, a key manager and build_and_sign   *)
(*   SpecTxHash   the two create_transaction_hash functions on their own   *)
(*   SpecAddress  Address::to_string and Address::from_string              *)
(*   SpecReads    the reads of both managers among their mutations, the    *)
(*                mutations taken write by write                           *)
(*   SpecTotals   add_note, Balance::total and get_total_balance           *)
(*   SpecRunner   two NockchainNodeRunners on one data_dir, step by step   *)
(*   SpecManager  the NockchainNodeManager called directly                 *)
(*   SpecDesktop  the Node page driving its NockchainNodeManager           *)
(*   SpecLogs     add_log and get_logs of a manager and of a runner        *)
(*                                                                         *)
(* u64 is scaled down to the range 0..MaxU64.  An arithmetic overflow      *)
(* wraps in a build without overflow checks and panics in a build with     *)
(* them; the build is chosen in Init (overflow_checks).                    *)
(***************************************************************************)
EXTENDS Integers, Sequences, FiniteSets, TLC

VARIABLES
    notes,                  \* BalanceManager.notes: id -> Note
    address_balances,       \* BalanceManager.address_balances: Address -> Balance
    builder,                \* TransactionBuilder {inputs, outputs, fee}
    pending_transactions,   \* TransactionManager.pending_transactions
    confirmed_transactions, \* TransactionManager.confirmed_transactions
    submitted,              \* history: tx id -> outpoints its inputs spend
    now,                    \* the wall clock read by Utc::now()
    block,                  \* a Block {header, transactions}, or NoBlock
    merkle_txs,             \* history: transactions when merkle_root was computed
    sha_oracle,             \* bytes of the SHA-256 digests computed so far
    overflow_checks,        \* the build: TRUE panics on overflow, FALSE wraps
    borrow,                 \* the `&mut self` call of a manager under way
    spent_ids,              \* history: ids of the Notes spend_note has spent
    mine_pc,                \* Block::mine: None, or the next nonce of its loop
    mine_log,               \* history of the current or last mine() call
    stop_requested,         \* a caller has asked the running mine() to stop
    keys,                   \* NockchainKeyManager.keys: name -> key pair
    encrypted_storage,      \* NockchainKeyManager.encrypted_storage
    key_log,                \* history: names registered now, names removed
    fs,                     \* the file system: data_dir and its lockfile
    runner,                 \* the NockchainNodeRunners, one per process
    manager,                \* the desktop's NockchainNodeManager
    desktop,                \* the Node page: its signals and spawned task
    logs,                   \* the log buffers of a manager and of a runner
    last,                   \* the last call: [op, arg, res, val]
    ops                     \* number of calls made so far

vars == <<notes, address_balances, builder, pending_transactions,
          confirmed_transactions, submitted, now, block, merkle_txs,
          sha_oracle, spent_ids, mine_pc, mine_log, stop_requested,
          keys, encrypted_storage, key_log, fs, runner, manager, desktop,
          logs, overflow_checks, borrow,
          last, ops>>

ledger_vars == <<notes, address_balances, spent_ids>>
builder_vars == <<builder>>
txm_vars == <<pending_transactions, confirmed_transactions, submitted, now>>
block_vars == <<block, merkle_txs, sha_oracle>>
mine_vars == <<mine_pc, mine_log, stop_requested>>
key_vars == <<keys, encrypted_storage, key_log>>
node_vars == <<fs, runner, manager, desktop, logs>>

(***************************************************************************)
(* Bounds of the model.                                                    *)
(***************************************************************************)
\* Largest value of the scaled-down u64 (the real one is 2^64 - 1).
MaxU64 == 3
\* Number of calls in one behaviour.
MaxOps == 3

\* Most calls of start_node and stop_node (clicks, for the Node page) in one
\* behaviour of the node specifications.
MaxNodeCalls == 3

\* Longest inputs and outputs list of a TransactionBuilder.
MaxLen == 2

\* Most records a TransactionManager holds (pending and confirmed together).
MaxTxs == 3
\* Latest reading of the clock.
MaxTime == 1

NoteIds == {"n1", "n2"}
Addresses == {"A", "B"}
\* Note amounts: a small one and the largest u64.
Amounts == {1, MaxU64}

(***************************************************************************)
(* Option<T>, Result<(), WalletError> and a panic.                         *)
(***************************************************************************)
None == <<>>
Some(x) == <<x>>
is_some(o) == o # None

Ok == "Ok"
Panic == "Panic"
ErrNoteSpent == "Transaction(Note already spent)"
ErrNoteNotFound == "KeyNotFound(Note not found)"
ErrBalanceNotFound == "Storage(Address balance not found)"
ErrNoInputs == "Transaction(No inputs provided)"
ErrNoOutputs == "Transaction(No outputs provided)"
InsufficientFunds == "InsufficientFunds"
ErrTxNotFound == "Transaction(Transaction not found)"
ErrInvalidAddress == "InvalidAddress"
ErrInvalidPoW == "BlockValidation(Invalid proof of work)"
ErrInvalidMerkle == "BlockValidation(Invalid merkle root)"
ErrTxNoInputs == "BlockValidation(Transaction has no inputs)"
ErrTxNoOutputs == "BlockValidation(Transaction has no outputs)"

(***************************************************************************)
(* u64 arithmetic.                                                         *)
(***************************************************************************)
wrapping_add(a, b) == (a + b) % (MaxU64 + 1)
overflows(a, b) == a + b > MaxU64
saturating_sub(a, b) == IF a >= b THEN a - b ELSE 0

(***************************************************************************)
(* Balance and Note (mod.rs).  A Note keeps the fields the ledger reads;   *)
(* transaction_id and output_index name the output the Note came from.     *)
(***************************************************************************)
Balance_new == [confirmed |-> 0, unconfirmed |-> 0, locked |-> 0]

NoteInputs ==
    [id : NoteIds, address : Addresses, amount : Amounts,
     block_height : {None, Some(1)}, transaction_id : {"t1"},
     output_index : {0}, spent : BOOLEAN, locked : BOOLEAN]

\* HashMap::insert: the entry for k is added or replaced.
map_insert(m, k, v) ==
    [x \in DOMAIN m \cup {k} |-> IF x = k THEN v ELSE m[x]]

\* The bucket of a Balance that a Note counts in.
bucket_of(note) ==
    IF is_some(note.block_height) THEN "confirmed" ELSE "unconfirmed"

(***************************************************************************)
(* BalanceManager::add_note.  Returns the manager after the call and the   *)
(* result.  `checks` is the build's overflow checking.                     *)
(***************************************************************************)
add_note_without_balance_entry(bm, note, checks) ==
    LET ns == map_insert(bm.notes, note.id, note)
        b == bucket_of(note)
    IN  IF note.address \notin DOMAIN bm.address_balances
        THEN [notes |-> ns, address_balances |-> bm.address_balances,
              res |-> Ok]
        ELSE IF checks /\ overflows(bm.address_balances[note.address][b],
                                    note.amount)
        THEN [notes |-> ns, address_balances |-> bm.address_balances,
              res |-> Panic]
        ELSE [notes |-> ns,
              address_balances |->
                  [bm.address_balances EXCEPT
                      ![note.address][b] = wrapping_add(@, note.amount)],
              res |-> Ok]

add_note(bm, note, checks) ==
    LET ns == map_insert(bm.notes, note.id, note)
        bals == IF note.address \in DOMAIN bm.address_balances
                THEN bm.address_balances
                ELSE map_insert(bm.address_balances, note.address, Balance_new)
        b == bucket_of(note)
    IN  IF checks /\ overflows(bals[note.address][b], note.amount)
        THEN [notes |-> ns, address_balances |-> bals, res |-> Panic]
        ELSE [notes |-> ns,
              address_balances |->
                  [bals EXCEPT ![note.address][b] = wrapping_add(@, note.amount)],
              res |-> Ok]

(***************************************************************************)
(* spend_note without the already-spent check: the second spend succeeds   *)
(* and is subtracted again.                                                *)
(***************************************************************************)
spend_note_no_spent_check(bm, note_id) ==
    IF note_id \in DOMAIN bm.notes /\ bm.notes[note_id].address \in DOMAIN bm.address_balances
    THEN LET note == bm.notes[note_id]
         IN  [notes |-> [bm.notes EXCEPT ![note_id].spent = TRUE],
              address_balances |->
                  [bm.address_balances EXCEPT
                      ![note.address][bucket_of(note)] =
                          saturating_sub(@, note.amount)],
              res |-> Ok]
    ELSE [notes |-> bm.notes, address_balances |-> bm.address_balances,
          res |-> ErrNoteNotFound]

(***************************************************************************)
(* spend_note that clears the bucket instead of subtracting the amount.    *)
(***************************************************************************)
spend_note_clears_bucket(bm, note_id) ==
    IF note_id \in DOMAIN bm.notes
    THEN LET note == bm.notes[note_id]
             ns == [bm.notes EXCEPT ![note_id].spent = TRUE]
         IN  IF note.spent
             THEN [notes |-> bm.notes, address_balances |-> bm.address_balances,
                   res |-> ErrNoteSpent]
             ELSE IF note.address \notin DOMAIN bm.address_balances
             THEN [notes |-> ns, address_balances |-> bm.address_balances,
                   res |-> ErrBalanceNotFound]
             ELSE [notes |-> ns,
                   address_balances |->
                       [bm.address_balances EXCEPT
                           ![note.address][bucket_of(note)] = 0],
                   res |-> Ok]
    ELSE [notes |-> bm.notes, address_balances |-> bm.address_balances,
          res |-> ErrNoteNotFound]

(***************************************************************************)
(* BalanceManager::spend_note.                                             *)
(***************************************************************************)
spend_note(bm, note_id) ==
    IF note_id \in DOMAIN bm.notes
    THEN LET note == bm.notes[note_id]
             ns == [bm.notes EXCEPT ![note_id].spent = TRUE]
         IN  IF note.spent
             THEN [notes |-> bm.notes, address_balances |-> bm.address_balances,
                   res |-> ErrNoteSpent]
             ELSE IF note.address \notin DOMAIN bm.address_balances
             THEN [notes |-> ns, address_balances |-> bm.address_balances,
                   res |-> ErrBalanceNotFound]
             ELSE [notes |-> ns,
                   address_balances |->
                       [bm.address_balances EXCEPT
                           ![note.address][bucket_of(note)] =
                               saturating_sub(@, note.amount)],
                   res |-> Ok]
    ELSE [notes |-> bm.notes, address_balances |-> bm.address_balances,
          res |-> ErrNoteNotFound]

\* BalanceManager::get_balance.
get_balance(bm, address) ==
    IF address \in DOMAIN bm.address_balances
    THEN bm.address_balances[address]
    ELSE Balance_new

\* Balance::total: confirmed + unconfirmed, plain u64 addition.
Balance_total(balance, checks) ==
    IF checks /\ overflows(balance.confirmed, balance.unconfirmed)
    THEN [res |-> Panic, val |-> 0]
    ELSE [res |-> Ok,
          val |-> wrapping_add(balance.confirmed, balance.unconfirmed)]

RECURSIVE total_from(_, _, _, _)
\* `for balance in self.address_balances.values()` over the addresses left,
\* with `+=` on each of the three fields.  The sums do not depend on the
\* order, and a panic happens in one order exactly when it does in all.
total_from(bm, left, total, checks) ==
    IF left = {} THEN [res |-> Ok, val |-> total]
    ELSE LET a == CHOOSE x \in left : TRUE
             balance == bm.address_balances[a]
         IN  IF checks /\ (\/ overflows(total.confirmed, balance.confirmed)
                           \/ overflows(total.unconfirmed, balance.unconfirmed)
                           \/ overflows(total.locked, balance.locked))
             THEN [res |-> Panic, val |-> total]
             ELSE total_from(bm, left \ {a},
                     [confirmed |-> wrapping_add(total.confirmed,
                                                 balance.confirmed),
                      unconfirmed |-> wrapping_add(total.unconfirmed,
                                                   balance.unconfirmed),
                      locked |-> wrapping_add(total.locked, balance.locked)],
                     checks)

\* BalanceManager::get_total_balance.
get_total_balance(bm, checks) ==
    total_from(bm, DOMAIN bm.address_balances, Balance_new, checks)

\* The orders in which a HashMap may hand out the entries with the keys S.
iteration_orders(S) ==
    {f \in [1 .. Cardinality(S) -> S] :
        \A i, j \in 1 .. Cardinality(S) : i # j => f[i] # f[j]}

(***************************************************************************)
(* BalanceManager::get_spendable_notes: the Notes that pass the filter, in *)
(* the order notes.values() yields them, which the HashMap leaves open:    *)
(* the operator is the set of the results the call may return.  `amount`   *)
(* is not read.                                                            *)
(***************************************************************************)
get_spendable_notes(bm, address, amount) ==
    LET passing == {id \in DOMAIN bm.notes :
                       /\ bm.notes[id].address = address
                       /\ ~bm.notes[id].spent
                       /\ ~bm.notes[id].locked
                       /\ is_some(bm.notes[id].block_height)}
    IN  {[i \in 1 .. Cardinality(passing) |-> bm.notes[f[i]]] :
            f \in iteration_orders(passing)}

BM == [notes |-> notes, address_balances |-> address_balances]

(***************************************************************************)
(* TransactionInput / TransactionOutput (keys.rs) and the builder          *)
(* (transaction.rs).                                                       *)
(***************************************************************************)
OutPoints == [transaction_id : {"t1"}, output_index : {0}]

TransactionInputs ==
    [previous_output : OutPoints, signature : {<<>>}, public_key : {"pkA"},
     amount : {1, 2, MaxU64}]

TransactionOutputs ==
    [amount : {1, 2, MaxU64}, recipient_address : {"A"}, script_pubkey : {<<>>}]

Fees == {0, 1, MaxU64}

RECURSIVE sum_from(_, _, _, _)
\* Iterator::sum over u64 amounts: a left fold with `+`, which panics at the
\* first partial sum that overflows in a build with overflow checks and wraps
\* otherwise.  Returns [val, panic].
sum_from(items, i, acc, checks) ==
    IF i > Len(items) THEN [val |-> acc, panic |-> FALSE]
    ELSE IF checks /\ overflows(acc, items[i].amount)
    THEN [val |-> acc, panic |-> TRUE]
    ELSE sum_from(items, i + 1, wrapping_add(acc, items[i].amount), checks)

\* TransactionBuilder::total_input.
total_input(b, checks) == sum_from(b.inputs, 1, 0, checks)

\* TransactionBuilder::total_output.
total_output(b, checks) == sum_from(b.outputs, 1, 0, checks)

(***************************************************************************)
(* TransactionBuilder::validate.  Returns [res, val]; val holds the fields *)
(* of InsufficientFunds.                                                   *)
(***************************************************************************)
validate(b, checks) ==
    IF b.inputs = <<>> THEN [res |-> ErrNoInputs, val |-> <<>>]
    ELSE IF b.outputs = <<>> THEN [res |-> ErrNoOutputs, val |-> <<>>]
    ELSE LET ti == total_input(b, checks)
         IN  IF ti.panic THEN [res |-> Panic, val |-> <<>>]
             ELSE LET to == total_output(b, checks)
                  IN  IF to.panic THEN [res |-> Panic, val |-> <<>>]
                      ELSE IF checks /\ overflows(to.val, b.fee)
                      THEN [res |-> Panic, val |-> <<>>]
                      ELSE LET total_spent == wrapping_add(to.val, b.fee)
                           IN  IF ti.val < total_spent
                               THEN [res |-> InsufficientFunds,
                                     val |-> [required |-> total_spent,
                                              available |-> ti.val]]
                               ELSE [res |-> Ok, val |-> <<>>]

\* TransactionBuilder::new.
TransactionBuilder_new == [inputs |-> <<>>, outputs |-> <<>>, fee |-> 0]

(***************************************************************************)
(* Address text form (mod.rs).  The base58 text of each address is a       *)
(* table; from_string accepts exactly the texts of the table.              *)
(***************************************************************************)
Base58Text == [A |-> "b58(A)", B |-> "b58(B)"]

Address_to_string(a) == Base58Text[a]

Address_from_string(s) ==
    IF \E a \in Addresses : Base58Text[a] = s
    THEN [res |-> Ok, val |-> CHOOSE a \in Addresses : Base58Text[a] = s]
    ELSE [res |-> ErrInvalidAddress, val |-> <<>>]

(***************************************************************************)
(* Address text form, byte by byte.  A text is the sequence of its         *)
(* character codes; bs58 converts between base 256 and base 58 with the    *)
(* least significant digit first and reverses at the end.                  *)
(***************************************************************************)
AddressLen == 32

\* The character codes from a to b.
CodeRange(a, b) == [i \in 1 .. (b - a + 1) |-> a + i - 1]

\* The Bitcoin alphabet, bs58's default: 1-9, A-H, J-N, P-Z, a-k, m-z.
Base58Alphabet ==
    CodeRange(49, 57) \o CodeRange(65, 72) \o CodeRange(74, 78)
    \o CodeRange(80, 90) \o CodeRange(97, 107) \o CodeRange(109, 122)

\* The digit a character stands for.
alphabet_index(c) == CHOOSE k \in DOMAIN Base58Alphabet : Base58Alphabet[k] = c

in_alphabet(c) == \E k \in DOMAIN Base58Alphabet : Base58Alphabet[k] = c

RECURSIVE spill(_, _, _)
\* `while carry > 0`: the carry becomes new most significant digits.
spill(digits, carry, base) ==
    IF carry = 0 THEN digits
    ELSE spill(Append(digits, carry % base), carry \div base, base)

RECURSIVE mul_add(_, _, _, _, _)
\* digits * mul + carry in the given base, from digit i on.
mul_add(digits, i, carry, mul, base) ==
    IF i > Len(digits) THEN spill(digits, carry, base)
    ELSE LET c == carry + digits[i] * mul
         IN  mul_add([digits EXCEPT ![i] = c % base], i + 1, c \div base,
                     mul, base)

RECURSIVE convert(_, _, _, _, _)
\* The digits in `base` of the number whose digits in base `mul` are input,
\* most significant first, from index k on.
convert(input, k, digits, mul, base) ==
    IF k > Len(input) THEN digits
    ELSE convert(input, k + 1, mul_add(digits, 1, input[k], mul, base),
                 mul, base)

\* No leading zero is counted.
leading_zeros_dropped(input) == 0

\* take_while(|v| v == 0).count(): the zeros input starts with.
leading_zeros(input) ==
    Cardinality({i \in DOMAIN input : \A j \in 1 .. i : input[j] = 0})

reverse(q) == [i \in 1 .. Len(q) |-> q[Len(q) + 1 - i]]

\* bs58::encode(bytes).into_string().
bs58_encode(bytes) ==
    LET digits == convert(bytes, 1, <<>>, 256, 58)
                  \o [i \in 1 .. leading_zeros(bytes) |-> 0]
    IN  reverse([i \in DOMAIN digits |-> Base58Alphabet[digits[i] + 1]])

\* bs58::decode(text).into_vec(): an error when a character is not of the
\* alphabet.
bs58_decode(text) ==
    IF \E i \in DOMAIN text : ~in_alphabet(text[i])
    THEN [res |-> "DecodeError", val |-> <<>>]
    ELSE LET values == [i \in DOMAIN text |-> alphabet_index(text[i]) - 1]
             bytes == convert(values, 1, <<>>, 58, 256)
                      \o [i \in 1 .. leading_zeros(values) |-> 0]
         IN  [res |-> Ok, val |-> reverse(bytes)]

\* Address::to_string.
to_string(address) == bs58_encode(address.public_key)

\* Address::from_string.
from_string(text) ==
    LET decoded == bs58_decode(text)
    IN  IF decoded.res # Ok THEN [res |-> ErrInvalidAddress, val |-> <<>>]
        ELSE IF Len(decoded.val) # AddressLen
        THEN [res |-> ErrInvalidAddress, val |-> <<>>]
        ELSE [res |-> Ok, val |-> [public_key |-> decoded.val]]

\* Result::ok: Some(value) of an Ok, None of an Err.
result_ok(r) == IF r.res = Ok THEN Some(r.val) ELSE None

(***************************************************************************)
(* SignedTransaction, Transaction and TransactionStatus.                   *)
(***************************************************************************)
Pending == <<"Pending">>
Confirmed(block_height) == <<"Confirmed", block_height>>

TxIds == {"tx1", "tx2"}
Heights == {7}

SpentOutPoint == [transaction_id |-> "t1", output_index |-> 0]

\* The signed transactions handed to add_pending_transaction: tx1 pays 1 to
\* a decodable address, tx2 has an undecodable first recipient and outputs
\* that sum to more than a u64 holds.
SignedTxs ==
    { [id |-> "tx1",
       inputs |-> << [previous_output |-> SpentOutPoint, signature |-> <<>>,
                      public_key |-> "pkA", amount |-> 2] >>,
       outputs |-> << [amount |-> 1, recipient_address |-> Address_to_string("A"),
                       script_pubkey |-> <<>>] >>,
       fee |-> 1],
      [id |-> "tx2",
       inputs |-> << [previous_output |-> SpentOutPoint, signature |-> <<>>,
                      public_key |-> "pkA", amount |-> MaxU64] >>,
       outputs |-> << [amount |-> 1, recipient_address |-> "not base58",
                       script_pubkey |-> <<>>],
                      [amount |-> MaxU64, recipient_address |-> Address_to_string("B"),
                       script_pubkey |-> <<>>] >>,
       fee |-> 0] }

TM == [pending_transactions |-> pending_transactions,
       confirmed_transactions |-> confirmed_transactions]

(***************************************************************************)
(* TransactionManager::add_pending_transaction at clock reading t.         *)
(***************************************************************************)
add_pending_transaction(tm, signed_tx, is_outgoing, t, checks) ==
    LET amount == sum_from(signed_tx.outputs, 1, 0, checks)
        to_address ==
            IF signed_tx.outputs = <<>> THEN None
            ELSE result_ok(Address_from_string(
                               Head(signed_tx.outputs).recipient_address))
        transaction ==
            [id |-> signed_tx.id,
             status |-> Pending,
             amount |-> amount.val,
             fee |-> signed_tx.fee,
             from_address |-> None,
             to_address |-> to_address,
             created_at |-> t,
             confirmed_at |-> None,
             is_outgoing |-> is_outgoing]
    IN  IF amount.panic
        THEN [pending_transactions |-> tm.pending_transactions,
              confirmed_transactions |-> tm.confirmed_transactions,
              res |-> Panic]
        ELSE [pending_transactions |-> Append(tm.pending_transactions, transaction),
              confirmed_transactions |-> tm.confirmed_transactions,
              res |-> Ok]

RECURSIVE position_from(_, _, _)
\* Iterator::position: the first index i >= the start with items[i].id = id,
\* or 0 when there is none.
position_from(items, id, i) ==
    IF i > Len(items) THEN 0
    ELSE IF items[i].id = id THEN i
    ELSE position_from(items, id, i + 1)

\* Vec::remove(pos): the elements after pos move one place down.
vec_remove(items, pos) ==
    SubSeq(items, 1, pos - 1) \o SubSeq(items, pos + 1, Len(items))

\* The records before the first one older than x, by created_at: where a
\* stable sort, newest first, puts x after equally new records.
newer_or_equal(sorted, x) ==
    Cardinality({i \in DOMAIN sorted : sorted[i].created_at >= x.created_at})

\* The records placed before x when the oldest come first.
older_or_equal(sorted, x) ==
    Cardinality({i \in DOMAIN sorted : sorted[i].created_at <= x.created_at})

RECURSIVE sort_oldest_first(_, _, _)
sort_oldest_first(items, i, sorted) ==
    IF i > Len(items) THEN sorted
    ELSE LET k == older_or_equal(sorted, items[i])
         IN  sort_oldest_first(items, i + 1,
                               SubSeq(sorted, 1, k) \o <<items[i]>>
                               \o SubSeq(sorted, k + 1, Len(sorted)))

RECURSIVE sort_newest_first(_, _, _)
\* sort_by(|a, b| b.created_at.cmp(&a.created_at)): a stable sort, taken
\* record by record from index i on into the sorted list.
sort_newest_first(items, i, sorted) ==
    IF i > Len(items) THEN sorted
    ELSE LET k == newer_or_equal(sorted, items[i])
         IN  sort_newest_first(items, i + 1,
                               SubSeq(sorted, 1, k) \o <<items[i]>>
                               \o SubSeq(sorted, k + 1, Len(sorted)))

\* get_all_transactions that sorts the oldest record first.
get_all_transactions_oldest_first(tm) ==
    sort_oldest_first(tm.pending_transactions \o tm.confirmed_transactions,
                      1, <<>>)

\* TransactionManager::get_all_transactions.
get_all_transactions(tm) ==
    sort_newest_first(tm.pending_transactions \o tm.confirmed_transactions,
                      1, <<>>)

RECURSIVE last_position_from(_, _, _)
last_position_from(items, id, i) ==
    IF i < 1 THEN 0
    ELSE IF items[i].id = id THEN i
    ELSE last_position_from(items, id, i - 1)

\* confirm_transaction taking the last matching pending record, not the first.
confirm_transaction_last_match(tm, tx_id, block_height, t) ==
    LET pos == last_position_from(tm.pending_transactions, tx_id,
                                  Len(tm.pending_transactions))
    IN  IF pos # 0
        THEN [pending_transactions |-> vec_remove(tm.pending_transactions, pos),
              confirmed_transactions |->
                  Append(tm.confirmed_transactions,
                         [tm.pending_transactions[pos] EXCEPT
                             !.status = Confirmed(block_height),
                             !.confirmed_at = Some(t)]),
              res |-> Ok]
        ELSE [pending_transactions |-> tm.pending_transactions,
              confirmed_transactions |-> tm.confirmed_transactions,
              res |-> ErrTxNotFound]

RECURSIVE reconfirm_all(_, _, _)
reconfirm_all(items, id, status) ==
    IF items = <<>> THEN <<>>
    ELSE <<IF Head(items).id = id THEN [Head(items) EXCEPT !.status = status]
           ELSE Head(items)>> \o reconfirm_all(Tail(items), id, status)

\* confirm_transaction that accepts an id that is already confirmed and
\* moves it to the new block height.
confirm_transaction_reconfirms(tm, tx_id, block_height, t) ==
    LET pos == position_from(tm.pending_transactions, tx_id, 1)
    IN  IF pos # 0
        THEN [pending_transactions |-> vec_remove(tm.pending_transactions, pos),
              confirmed_transactions |->
                  Append(tm.confirmed_transactions,
                         [tm.pending_transactions[pos] EXCEPT
                             !.status = Confirmed(block_height),
                             !.confirmed_at = Some(t)]),
              res |-> Ok]
        ELSE IF position_from(tm.confirmed_transactions, tx_id, 1) # 0
        THEN [pending_transactions |-> tm.pending_transactions,
              confirmed_transactions |->
                  reconfirm_all(tm.confirmed_transactions, tx_id,
                                Confirmed(block_height + 1)),
              res |-> Ok]
        ELSE [pending_transactions |-> tm.pending_transactions,
              confirmed_transactions |-> tm.confirmed_transactions,
              res |-> ErrTxNotFound]

(***************************************************************************)
(* TransactionManager::confirm_transaction at clock reading t.             *)
(***************************************************************************)
confirm_transaction(tm, tx_id, block_height, t) ==
    LET pos == position_from(tm.pending_transactions, tx_id, 1)
    IN  IF pos # 0
        THEN LET transaction ==
                     [tm.pending_transactions[pos] EXCEPT
                         !.status = Confirmed(block_height),
                         !.confirmed_at = Some(t)]
             IN  [pending_transactions |-> vec_remove(tm.pending_transactions, pos),
                  confirmed_transactions |->
                      Append(tm.confirmed_transactions, transaction),
                  res |-> Ok]
        ELSE [pending_transactions |-> tm.pending_transactions,
              confirmed_transactions |-> tm.confirmed_transactions,
              res |-> ErrTxNotFound]

\* The outpoints the inputs of a signed transaction spend.
outpoints_of(signed_tx) ==
    {signed_tx.inputs[i].previous_output : i \in 1 .. Len(signed_tx.inputs)}

(***************************************************************************)
(* Byte strings and SHA-256.                                               *)
(*                                                                         *)
(* A byte string is a sequence of integers.  Bytes are 0..255.  A SHA-256  *)
(* digest is kept symbolic: the digest of x is x between the markers       *)
(* DigestOpen and DigestClose, which no byte equals, so two digests are    *)
(* equal exactly when their inputs are (SHA-256 without collisions), and a *)
(* digest differs from every string of plain bytes.  A digest is 32 bytes  *)
(* long.  Where the numeric value of a digest is needed (the proof of      *)
(* work), its 32 bytes are those that sha_oracle holds for it.             *)
(* Element i of a sequence is byte i - 1 of the Rust array.                *)
(***************************************************************************)
DigestOpen == 0 - 1
DigestClose == 0 - 2
HashLen == 32

Sha256(x) == <<DigestOpen>> \o x \o <<DigestClose>>

is_digest(h) == h # <<>> /\ h[1] = DigestOpen

Zero32 == [i \in 1 .. HashLen |-> 0]

RECURSIVE to_le_bytes(_, _)
\* to_le_bytes of an unsigned integer of n bytes.
to_le_bytes(v, n) ==
    IF n = 0 THEN <<>> ELSE <<v % 256>> \o to_le_bytes(v \div 256, n - 1)

\* A leaf that is tx.hash as it is, neither truncated nor padded.
leaf_hash_as_is(h) == h

\* The leaf of a transaction in calculate_merkle_root: tx.hash copied into a
\* zeroed 32-byte array, at most 32 bytes of it.
leaf_hash(h) ==
    IF is_digest(h) THEN h
    ELSE [i \in 1 .. HashLen |-> IF i <= Len(h) THEN h[i] ELSE 0]

RECURSIVE bytes_before(_, _, _)
\* x comes before y in the byte-wise order, from index i on.
bytes_before(x, y, i) ==
    IF i > Len(y) THEN FALSE
    ELSE IF i > Len(x) THEN TRUE
    ELSE IF x[i] # y[i] THEN x[i] < y[i]
    ELSE bytes_before(x, y, i + 1)

RECURSIVE merkle_level_sorted_pairs(_, _)
\* A pass over the chunks that hashes each pair smaller hash first.
merkle_level_sorted_pairs(hashes, i) ==
    IF i > Len(hashes) THEN <<>>
    ELSE IF i + 1 <= Len(hashes)
    THEN <<IF bytes_before(hashes[i + 1], hashes[i], 1)
           THEN Sha256(hashes[i + 1] \o hashes[i])
           ELSE Sha256(hashes[i] \o hashes[i + 1])>>
         \o merkle_level_sorted_pairs(hashes, i + 2)
    ELSE <<Sha256(hashes[i] \o hashes[i])>>

RECURSIVE merkle_level_odd_passed_up(_, _)
merkle_level_odd_passed_up(hashes, i) ==
    IF i > Len(hashes) THEN <<>>
    ELSE IF i + 1 <= Len(hashes)
    THEN <<Sha256(hashes[i] \o hashes[i + 1])>>
         \o merkle_level_odd_passed_up(hashes, i + 2)
    ELSE <<hashes[i]>>

RECURSIVE merkle_level(_, _)
\* One pass of `for chunk in hashes.chunks(2)`, from index i on.
merkle_level(hashes, i) ==
    IF i > Len(hashes) THEN <<>>
    ELSE IF i + 1 <= Len(hashes)
    THEN <<Sha256(hashes[i] \o hashes[i + 1])>> \o merkle_level(hashes, i + 2)
    ELSE <<Sha256(hashes[i] \o hashes[i])>>

RECURSIVE merkle_fold(_)
\* `while hashes.len() > 1`.
merkle_fold(hashes) ==
    IF Len(hashes) > 1 THEN merkle_fold(merkle_level(hashes, 1))
    ELSE hashes[1]

(***************************************************************************)
(* calculate_merkle_root.                                                  *)
(***************************************************************************)
calculate_merkle_root(transactions) ==
    IF transactions = <<>> THEN Zero32
    ELSE merkle_fold([i \in 1 .. Len(transactions) |->
                         leaf_hash(transactions[i].hash)])

(***************************************************************************)
(* difficulty_to_target that places the mantissa one byte too far left.    *)
(***************************************************************************)
difficulty_to_target_shifted(bits) ==
    LET exponent == (bits \div 16777216) % 256
        mantissa == bits % 16777216
    IN  IF exponent <= 3
        THEN LET target_value == mantissa \div (256 ^ (3 - exponent))
             IN  [i \in 1 .. HashLen |->
                     IF i = 30 THEN (target_value \div 65536) % 256
                     ELSE IF i = 31 THEN (target_value \div 256) % 256
                     ELSE IF i = 32 THEN target_value % 256
                     ELSE 0]
        ELSE IF exponent < 32
        THEN LET start_byte == 31 - exponent
             IN  [i \in 1 .. HashLen |->
                     IF i = start_byte + 1 THEN (mantissa \div 65536) % 256
                     ELSE IF i = start_byte + 2 THEN (mantissa \div 256) % 256
                     ELSE IF i = start_byte + 3 THEN mantissa % 256
                     ELSE 0]
        ELSE Zero32

(***************************************************************************)
(* difficulty_to_target: bits is a u32, exponent its top byte, mantissa    *)
(* its low 24 bits.                                                        *)
(***************************************************************************)
difficulty_to_target(bits) ==
    LET exponent == (bits \div 16777216) % 256
        mantissa == bits % 16777216
    IN  IF exponent <= 3
        THEN LET target_value == mantissa \div (256 ^ (3 - exponent))
             IN  [i \in 1 .. HashLen |->
                     IF i = 30 THEN (target_value \div 65536) % 256
                     ELSE IF i = 31 THEN (target_value \div 256) % 256
                     ELSE IF i = 32 THEN target_value % 256
                     ELSE 0]
        ELSE IF exponent < 32
        THEN LET start_byte == 32 - exponent
             IN  [i \in 1 .. HashLen |->
                     IF i = start_byte + 1 THEN (mantissa \div 65536) % 256
                     ELSE IF i = start_byte + 2 THEN (mantissa \div 256) % 256
                     ELSE IF i = start_byte + 3 THEN mantissa % 256
                     ELSE 0]
        ELSE Zero32

\* The indices of `target` that difficulty_to_target assigns to.
target_writes(bits) ==
    LET exponent == (bits \div 16777216) % 256
    IN  IF exponent <= 3 THEN {29, 30, 31}
        ELSE IF exponent < 32
        THEN {32 - exponent, 32 - exponent + 1, 32 - exponent + 2}
        ELSE {}

\* BlockHeader::hash: the digest of the fields in little-endian order.
header_hash(header) ==
    Sha256(to_le_bytes(header.version, 4)
           \o header.previous_hash
           \o header.merkle_root
           \o to_le_bytes(header.timestamp, 8)
           \o to_le_bytes(header.bits, 4)
           \o to_le_bytes(header.nonce, 8)
           \o to_le_bytes(header.height, 8))

RECURSIVE meets_from_strict(_, _, _)
\* The loop of a strict comparison: a hash equal to the target fails.
meets_from_strict(hash, target, i) ==
    IF i > HashLen THEN FALSE
    ELSE IF hash[i] < target[i] THEN TRUE
    ELSE IF hash[i] > target[i] THEN FALSE
    ELSE meets_from_strict(hash, target, i + 1)

RECURSIVE meets_from(_, _, _)
\* The loop of meets_difficulty from byte i on.
meets_from(hash, target, i) ==
    IF i > HashLen THEN TRUE
    ELSE IF hash[i] < target[i] THEN TRUE
    ELSE IF hash[i] > target[i] THEN FALSE
    ELSE meets_from(hash, target, i + 1)

\* BlockHeader::meets_difficulty, the digest bytes taken from `oracle`.
meets_difficulty(header, oracle) ==
    meets_from(oracle[header_hash(header)],
               difficulty_to_target(header.bits), 1)

RECURSIVE validate_transactions(_, _)
\* `for tx in &self.transactions` of Block::validate, from index i on.
validate_transactions(transactions, i) ==
    IF i > Len(transactions) THEN Ok
    ELSE IF transactions[i].inputs = <<>> THEN ErrTxNoInputs
    ELSE IF transactions[i].outputs = <<>> THEN ErrTxNoOutputs
    ELSE validate_transactions(transactions, i + 1)

RECURSIVE validate_transactions_outputs_first(_, _)
validate_transactions_outputs_first(transactions, i) ==
    IF i > Len(transactions) THEN Ok
    ELSE IF transactions[i].outputs = <<>> THEN ErrTxNoOutputs
    ELSE IF transactions[i].inputs = <<>> THEN ErrTxNoInputs
    ELSE validate_transactions_outputs_first(transactions, i + 1)

\* Block::validate that looks at a transaction's outputs before its inputs.
block_validate_outputs_first(b, oracle) ==
    IF ~meets_difficulty(b.header, oracle) THEN ErrInvalidPoW
    ELSE IF calculate_merkle_root(b.transactions) # b.header.merkle_root
    THEN ErrInvalidMerkle
    ELSE validate_transactions_outputs_first(b.transactions, 1)

(***************************************************************************)
(* Block::validate.                                                        *)
(***************************************************************************)
block_validate(b, oracle) ==
    IF ~meets_difficulty(b.header, oracle) THEN ErrInvalidPoW
    ELSE IF calculate_merkle_root(b.transactions) # b.header.merkle_root
    THEN ErrInvalidMerkle
    ELSE validate_transactions(b.transactions, 1)

(***************************************************************************)
(* Block::new at clock reading t.                                          *)
(***************************************************************************)
Block_new(previous_hash, transactions, height, bits, t) ==
    [header |-> [version |-> 1,
                 previous_hash |-> previous_hash,
                 merkle_root |-> calculate_merkle_root(transactions),
                 timestamp |-> t,
                 bits |-> bits,
                 nonce |-> 0,
                 height |-> height],
     transactions |-> transactions]

(***************************************************************************)
(* Block::mine.  `for nonce in 0..MAX_NONCE` tries the nonces below        *)
(* MAX_NONCE, which is u64::MAX.  The timestamp is refreshed after a       *)
(* failed try whose nonce is a multiple of the refresh interval (100000    *)
(* in the source, scaled down with u64).                                   *)
(***************************************************************************)
MAX_NONCE == MaxU64
\* The interval of `nonce % 100000 == 0`, scaled down.
RefreshInterval == 2

ErrConsensus == "Consensus: Failed to find valid nonce"
\* The loop goes on to its next nonce.
Continue == "continue"

\* One pass of the loop body that refreshes the timestamp on every multiple
\* of the interval, also when the header has just met its target.
mine_try_refresh_after_check(b, nonce, oracle, t) ==
    LET b1 == [b EXCEPT !.header.nonce = nonce]
        b2 == IF nonce % RefreshInterval = 0
              THEN [b1 EXCEPT !.header.timestamp = t] ELSE b1
    IN  [block |-> b2,
         res |-> IF meets_difficulty(b1.header, oracle) THEN Ok ELSE Continue]

\* One pass of the loop body of mine() for `nonce`, at clock reading t.
mine_try(b, nonce, oracle, t) ==
    LET b1 == [b EXCEPT !.header.nonce = nonce]
    IN  IF meets_difficulty(b1.header, oracle)
        THEN [block |-> b1, res |-> Ok]
        ELSE [block |-> IF nonce % RefreshInterval = 0
                        THEN [b1 EXCEPT !.header.timestamp = t] ELSE b1,
              res |-> Continue]

\* The range 0..MAX_NONCE still yields `nonce`.
range_yields(nonce) == nonce < MAX_NONCE

(***************************************************************************)
(* NockchainKeyPair and NockchainKeyManager (keys.rs).  A secret key is a  *)
(* string of bytes; the Ed25519 functions are symbolic: the verifying key  *)
(* of a secret is the secret between the markers PublicOpen and            *)
(* PublicClose, a signature is the secret followed by SignedWith and the   *)
(* message (Ed25519 signatures are deterministic).                         *)
(***************************************************************************)
PublicOpen == 0 - 3
PublicClose == 0 - 4
SignedWith == 0 - 5
SecretLen == 32

ErrKeyNotFound == "KeyNotFound"
ErrKeyExists == "KeyExists"
ErrCrypto == "Crypto: Invalid secret key length"
ErrNockNoun == "Crypto: Invalid nock noun data"

KeyNames == {"k1", "k2"}
\* The secret key all of whose bytes are b.
SecretOf(b) == [i \in 1 .. SecretLen |-> b]
\* The secrets OsRng may draw.
RandomSecrets == {SecretOf(1), SecretOf(2)}
\* The secret_bytes import_key is called with: 32, 31 and 33 bytes.
SecretInputs ==
    {SecretOf(1), SecretOf(3), [i \in 1 .. SecretLen - 1 |-> 1],
     [i \in 1 .. SecretLen + 1 |-> 1]}
Messages == {<<>>, <<1>>}
\* The noun_data import_nock_key is called with: 32, 33 and 31 bytes.
NounInputs ==
    {SecretOf(3), [i \in 1 .. SecretLen + 1 |-> 1],
     [i \in 1 .. SecretLen - 1 |-> 1]}
\* The keys_data import_nockchain_keys is called with: two chunks of 32
\* bytes and a rest of 5, one short chunk, nothing.
KeysDataInputs ==
    {SecretOf(1) \o SecretOf(2) \o <<9, 9, 9, 9, 9>>,
     [i \in 1 .. SecretLen - 1 |-> 1], <<>>}
\* The names the calls of the model look up.
LookupNames == KeyNames \cup {"imported_key_0", "imported_key_1"}

verifying_key(secret) == <<PublicOpen>> \o secret \o <<PublicClose>>

\* The key pair of a 32-byte secret: the tail of generate and
\* from_secret_bytes.
keypair_of(secret) ==
    [signing_key |-> secret,
     verifying_key |-> verifying_key(secret),
     address |-> verifying_key(secret),
     nockchain_address |-> Some(verifying_key(secret))]

\* NockchainKeyPair::generate with the secret drawn from OsRng.
NockchainKeyPair_generate(secret) == [res |-> Ok, val |-> keypair_of(secret)]

\* NockchainKeyPair::from_secret_bytes.
from_secret_bytes(secret_bytes) ==
    IF Len(secret_bytes) # SecretLen THEN [res |-> ErrCrypto, val |-> <<>>]
    ELSE [res |-> Ok, val |-> keypair_of(secret_bytes)]

\* NockchainKeyPair::sign.
keypair_sign(keypair, message) ==
    keypair.signing_key \o <<SignedWith>> \o message

KM == [keys |-> keys, encrypted_storage |-> encrypted_storage]

\* HashMap::remove.
map_remove(m, k) == [x \in DOMAIN m \ {k} |-> m[x]]

\* NockchainKeyManager::generate_key, `secret` drawn from OsRng.
generate_key(km, name, secret) ==
    LET keypair == NockchainKeyPair_generate(secret)
    IN  IF keypair.res # Ok
        THEN [km |-> km, res |-> keypair.res, val |-> <<>>]
        ELSE [km |-> [km EXCEPT !.keys = map_insert(@, name, keypair.val)],
              res |-> Ok, val |-> keypair.val.address]

\* import_key that registers an unusable entry before it checks the secret.
import_key_registers_first(km, name, secret_bytes) ==
    LET keypair == from_secret_bytes(secret_bytes)
    IN  IF keypair.res # Ok
        THEN [km |-> [km EXCEPT !.keys = map_insert(@, name, keypair_of(secret_bytes))],
              res |-> keypair.res, val |-> <<>>]
        ELSE [km |-> [km EXCEPT !.keys = map_insert(@, name, keypair.val)],
              res |-> Ok, val |-> keypair.val.address]

\* NockchainKeyManager::import_key.
import_key(km, name, secret_bytes) ==
    LET keypair == from_secret_bytes(secret_bytes)
    IN  IF keypair.res # Ok
        THEN [km |-> km, res |-> keypair.res, val |-> <<>>]
        ELSE [km |-> [km EXCEPT !.keys = map_insert(@, name, keypair.val)],
              res |-> Ok, val |-> keypair.val.address]

\* NockchainKeyPair::from_nock_noun: the first 32 bytes are the secret.
from_nock_noun(noun_data) ==
    IF Len(noun_data) >= SecretLen
    THEN from_secret_bytes(SubSeq(noun_data, 1, SecretLen))
    ELSE [res |-> ErrNockNoun, val |-> <<>>]

\* NockchainKeyManager::import_nock_key.
import_nock_key(km, name, noun_data) ==
    LET keypair == from_nock_noun(noun_data)
    IN  IF keypair.res # Ok
        THEN [km |-> km, res |-> keypair.res, val |-> <<>>]
        ELSE [km |-> [km EXCEPT !.keys = map_insert(@, name, keypair.val)],
              res |-> Ok, val |-> keypair.val.address]

\* format!("imported_key_{}", i)
imported_key_name(i) == "imported_key_" \o ToString(i)

\* keys_data.chunks(32): chunk i, counted from 0.
chunk_at(keys_data, i) ==
    SubSeq(keys_data, i * SecretLen + 1,
           IF (i + 1) * SecretLen < Len(keys_data)
           THEN (i + 1) * SecretLen ELSE Len(keys_data))

RECURSIVE import_chunks_from(_, _, _)
\* `for (i, chunk) in keys_data.chunks(32).enumerate()`, from chunk i on.
import_chunks_from(km, keys_data, i) ==
    IF i * SecretLen >= Len(keys_data) THEN [km |-> km, res |-> Ok]
    ELSE LET chunk == chunk_at(keys_data, i)
         IN  IF Len(chunk) = SecretLen
             THEN LET r == import_nock_key(km, imported_key_name(i), chunk)
                  IN  IF r.res # Ok THEN [km |-> r.km, res |-> r.res]
                      ELSE import_chunks_from(r.km, keys_data, i + 1)
             ELSE import_chunks_from(km, keys_data, i + 1)

\* NockchainKeyManager::import_nockchain_keys.
import_nockchain_keys(km, keys_data) == import_chunks_from(km, keys_data, 0)

\* NockchainKeyManager::get_key.
get_key(km, name) ==
    IF name \in DOMAIN km.keys THEN [res |-> Ok, val |-> km.keys[name]]
    ELSE [res |-> ErrKeyNotFound, val |-> <<>>]

\* NockchainKeyManager::remove_key.
remove_key(km, name) ==
    IF name \in DOMAIN km.keys
    THEN [km |-> [keys |-> map_remove(km.keys, name),
                  encrypted_storage |-> map_remove(km.encrypted_storage, name)],
          res |-> Ok]
    ELSE [km |-> km, res |-> ErrKeyNotFound]

\* NockchainKeyManager::sign_with_key.
sign_with_key(km, key_name, message) ==
    LET keypair == get_key(km, key_name)
    IN  IF keypair.res # Ok THEN [res |-> keypair.res, val |-> <<>>]
        ELSE [res |-> Ok, val |-> keypair_sign(keypair.val, message)]

(***************************************************************************)
(* create_transaction_hash, hex::encode and build_and_sign.                *)
(*                                                                         *)
(* as_bytes gives the bytes of the strings and of the 32-byte public keys  *)
(* that the model writes as text.  "t1" and "t2", "pkA" and "pkB", "A" and *)
(* "B" differ in one byte.                                                 *)
(***************************************************************************)
as_bytes(s) ==
    CASE s = "t1" -> <<116, 49>>
      [] s = "t2" -> <<116, 50>>
      [] s = "pkA" -> [i \in 1 .. 32 |-> 65]
      [] s = "pkB" -> [i \in 1 .. 32 |-> IF i = 1 THEN 66 ELSE 65]
      [] s = "A" -> <<65>>
      [] s = "B" -> <<66>>

\* The bytes one input adds to the hasher.
input_bytes(input) ==
    as_bytes(input.previous_output.transaction_id)
    \o to_le_bytes(input.previous_output.output_index, 4)
    \o input.signature
    \o as_bytes(input.public_key)
    \o to_le_bytes(input.amount, 8)

\* NockchainTransaction::create_transaction_hash: the bytes one input adds
\* to the hasher.  The amount of the input is not among them.
input_bytes_without_amount(input) ==
    as_bytes(input.previous_output.transaction_id)
    \o to_le_bytes(input.previous_output.output_index, 4)
    \o input.signature
    \o as_bytes(input.public_key)

\* The bytes one output adds to the hasher.
output_bytes(output) ==
    to_le_bytes(output.amount, 8)
    \o as_bytes(output.recipient_address)
    \o output.script_pubkey

RECURSIVE concat_inputs_without_amount(_, _)
\* NockchainTransaction::create_transaction_hash: `for input in inputs`,
\* from index i on.
concat_inputs_without_amount(inputs, i) ==
    IF i > Len(inputs) THEN <<>>
    ELSE input_bytes_without_amount(inputs[i])
         \o concat_inputs_without_amount(inputs, i + 1)

RECURSIVE concat_inputs(_, _)
\* `for input in inputs`, from index i on.
concat_inputs(inputs, i) ==
    IF i > Len(inputs) THEN <<>>
    ELSE input_bytes(inputs[i]) \o concat_inputs(inputs, i + 1)

RECURSIVE concat_outputs(_, _)
\* `for output in outputs`, from index i on.
concat_outputs(outputs, i) ==
    IF i > Len(outputs) THEN <<>>
    ELSE output_bytes(outputs[i]) \o concat_outputs(outputs, i + 1)

\* NockchainTransaction::create_transaction_hash(inputs, outputs): the
\* associated function of the transaction type.  It takes no fee.
NockchainTransaction_create_transaction_hash(inputs, outputs) ==
    Sha256(concat_inputs_without_amount(inputs, 1)
           \o concat_outputs(outputs, 1))

\* NockchainKeyManager::create_transaction_hash.
create_transaction_hash(inputs, outputs, fee) ==
    Sha256(concat_inputs(inputs, 1) \o concat_outputs(outputs, 1)
           \o to_le_bytes(fee, 8))

\* The character of a hexadecimal digit as hex::encode writes it.
hex_char(d) == IF d < 10 THEN 48 + d ELSE 87 + d

RECURSIVE hex_encode(_)
\* hex::encode: two characters for every byte.
hex_encode(bytes) ==
    IF bytes = <<>> THEN <<>>
    ELSE <<hex_char(bytes[1] \div 16), hex_char(bytes[1] % 16)>>
         \o hex_encode(Tail(bytes))

\* TransactionBuilder::build_and_sign.  `oracle` holds the bytes of the
\* digest.
build_and_sign(b, km, key_name, oracle, checks) ==
    LET v == validate(b, checks)
        tx_hash == create_transaction_hash(b.inputs, b.outputs, b.fee)
        signature == sign_with_key(km, key_name, tx_hash)
    IN  IF v.res # Ok THEN v
        ELSE IF signature.res # Ok THEN [res |-> signature.res, val |-> <<>>]
        ELSE [res |-> Ok,
              val |-> [id |-> hex_encode(oracle[tx_hash]),
                       inputs |-> b.inputs,
                       outputs |-> b.outputs,
                       fee |-> b.fee,
                       signature |-> signature.val,
                       hash |-> tx_hash]]

(***************************************************************************)
(* NodeLockfile and NockchainNodeRunner (network.rs).                      *)
(*                                                                         *)
(* fs.data_dir is what config.data_dir names: "dir", "file", "absent" (it   *)
(* does not exist and its parent is a directory), "orphan" (it does not    *)
(* exist and create_dir_all of its parent fails) or "empty" (the empty     *)
(* path: it does not exist, it has no parent, create_dir_all succeeds and  *)
(* creates nothing, and the lock path is a file of the current directory). *)
(* fs.lock is what the path data_dir/nockchain.lock holds: "absent",       *)
(* "empty" (created or truncated, nothing written yet), "garbage" (text    *)
(* with no PID on its first line), "unreadable" (read_to_string fails: the *)
(* bytes are not UTF-8) or the PID on its first line.  fs.writable: the    *)
(* parent of data_dir can be written.  fs.pma_ok:                          *)
(* create_dir_all(data_dir/pma) succeeds.                                  *)
(*                                                                         *)
(* Every runner lives in a process of its own.  start_node is taken step   *)
(* by step: acquire one file-system call per step, the assignment of the   *)
(* lockfile field, the directory checks, and one await per step, so that   *)
(* the calls of two processes interleave and a caller can drop the future  *)
(* at an await.  Every call of release() is one step, its remove_file      *)
(* acting on what the lock path holds when it runs: a lockfile taken out   *)
(* of the field is released in one step and released again, by its Drop,   *)
(* in the next.  runner[r].awaits counts the awaits that have completed.   *)
(***************************************************************************)
Runners == {"r1", "r2"}

\* std::process::id() in the process of runner r.
process_id(r) == IF r = "r1" THEN "p1" ELSE "p2"

\* The processes that `kill -0` finds: those of the runners.
LivePids == {process_id(r) : r \in Runners}

\* A PID recorded by a process that no longer exists.
DeadPid == "dead"

ErrAlreadyRunning == "Network: Node is already running"
ErrNotRunning == "Network: Node is not running"
ErrInstanceRunning == "Network: Another nockchain node instance is already running"
ErrCreateLockfile == "Network: Failed to create lockfile"
ErrNotADirectory == "Network: Data directory path exists but is not a directory"
ErrCreateDataDir == "Network: Failed to create data directory"
ErrCreatePma == "Network: Failed to create pma directory"
ErrCreateParent == "Network: Failed to create parent directory"
ErrVerification == "Network: Data directory verification failed after creation"

\* NockchainNodeRunner::new, with the position of its start_node or
\* stop_node call.  handle: the open File of its NodeLockfile is the file at
\* the lock path.  seen: the PID acquire() has read.  fresh: data_dir did
\* not exist when start_node was called.  call, result: the call that has
\* reached its return statement and the value it returns once the
\* NodeLockfile it gave up has been released and dropped.
NockchainNodeRunner_new ==
    [is_running |-> FALSE, lockfile |-> FALSE, pc |-> "idle",
     handle |-> FALSE, seen |-> "absent", fresh |-> FALSE, awaits |-> 0,
     call |-> "none", result |-> "none"]

\* The directory the lock path lies in exists: data_dir joined with
\* "nockchain.lock" is a file of the current directory when data_dir is the
\* empty path.
lock_dir_exists(f) == f.data_dir \in {"dir", "empty"}

\* Path::exists of the lock path.
lockfile_exists(f) == lock_dir_exists(f) /\ f.lock # "absent"

\* std::fs::remove_file of the lock path, errors ignored.
remove_file(f) == [f EXCEPT !.lock = "absent"]

\* NodeLockfile::release: removes the file at the lock path if one exists,
\* whoever wrote it.
release(f) == IF lockfile_exists(f) THEN remove_file(f) ELSE f

\* Runners lose the file their handle is open on when the path is removed.
unlink_handles(rs, before, after) ==
    IF before.lock # "absent" /\ after.lock = "absent"
    THEN [r \in DOMAIN rs |-> [rs[r] EXCEPT !.handle = FALSE]]
    ELSE rs

\* Drop for NodeLockfile: release().
drop_lockfile(f) == release(f)

\* NockchainTransaction::new, with the fields the block code reads.
(***************************************************************************)
(* The log buffers (network.rs).  A LogEntry is represented by the number  *)
(* of the add_log call that made it: its level, source and message play no *)
(* part in what the buffer keeps.                                          *)
(***************************************************************************)
\* NockchainNodeManager::add_log keeps at most this many entries.
ManagerLogCap == 1000
\* NockchainNodeRunner::add_log keeps at most this many entries.
RunnerLogCap == 100
\* NockchainNodeManager::get_logs: limit.unwrap_or(100).
DefaultLogLimit == 100
\* Number of the last add_log call of one behaviour.
MaxLogs == 1003

\* The entry the next add_log call makes.
next_entry(buf) == IF buf = <<>> THEN 1 ELSE buf[Len(buf)] + 1

\* NockchainNodeManager::new logs one entry.
manager_logs_new == <<1>>

manager_add_log_drops_newest(buf, entry) ==
    LET pushed == Append(buf, entry)
    IN  IF Len(pushed) > ManagerLogCap
        THEN SubSeq(pushed, 1, Len(pushed) - 1)
        ELSE pushed

\* NockchainNodeManager::add_log: push_back, then one pop_front if the
\* buffer is longer than 1000.
manager_add_log(buf, entry) ==
    LET pushed == Append(buf, entry)
    IN  IF Len(pushed) > ManagerLogCap THEN Tail(pushed) ELSE pushed

\* NockchainNodeRunner::add_log: push, then drain(0..len - 100).
runner_add_log(buf, entry) ==
    LET pushed == Append(buf, entry)
    IN  IF Len(pushed) > RunnerLogCap
        THEN SubSeq(pushed, Len(pushed) - RunnerLogCap + 1, Len(pushed))
        ELSE pushed

\* k add_log calls of the manager, one after the other.
RECURSIVE manager_add_logs(_, _)
manager_add_logs(buf, k) ==
    IF k = 0 THEN buf
    ELSE manager_add_logs(manager_add_log(buf, next_entry(buf)), k - 1)

\* k add_log calls of a runner, one after the other.
RECURSIVE runner_add_logs(_, _)
runner_add_logs(buf, k) ==
    IF k = 0 THEN buf
    ELSE runner_add_logs(runner_add_log(buf, next_entry(buf)), k - 1)

\* iter().rev().take(n).cloned().collect()
rev_take(buf, n) ==
    LET k == IF n < Len(buf) THEN n ELSE Len(buf)
    IN  [i \in 1..k |-> buf[Len(buf) - i + 1]]

\* NockchainNodeManager::get_logs(limit: Option<usize>)
manager_get_logs(buf, limit) ==
    rev_take(buf, IF limit = <<>> THEN DefaultLogLimit ELSE limit[1])

\* NockchainNodeRunner::get_logs(count: usize)
runner_get_logs(buf, count) == rev_take(buf, count)

(***************************************************************************)
(* NockchainNodeManager (network.rs) and the Node page of the desktop      *)
(* application (src/desktop/src/main.rs).                                  *)
(***************************************************************************)
\* NodeStatus: Error carries its message.
Stopped == <<"Stopped">>
Starting == <<"Starting">>
Running == <<"Running">>
Stopping == <<"Stopping">>
Error(msg) == <<"Error", msg>>

\* The result of polling a future that has not completed.
Poll_Pending == "Pending"
\* The outcome of a future dropped before it completed.
Dropped == "Dropped"

ErrInitialization == "Network: Real nockchain initialization failed"
ErrLockTimeout == "Network: Timeout acquiring node lock"

\* NockchainNodeConfig::default(): ten bootstrap peers, and every peer id
\* starts with '1', so that every connection attempt succeeds.
PeerCount == 10
\* initialize_real_nockchain_components awaits twice for each peer: the
\* 200 ms sleep and the sleep inside attempt_real_peer_connection.
AwaitsPerPeer == 2
TotalAwaits == PeerCount * AwaitsPerPeer

\* NockchainNodeManager::new: status Stopped.  pc and awaits are the position
\* of a start_node future that is suspended at an await: awaits is the
\* number of awaits that have completed.
NockchainNodeManager_new ==
    [status |-> Stopped, pc |-> "idle", awaits |-> 0]

\* start_node up to its first await or its return: [m, f, buf, res].  buf is
\* the log buffer.  Every path past the status check logs once (line 184);
\* the path to the initialisation logs at 262, 274 and 500; a failed
\* creation of pma logs at 296; the way to the first sleep logs at 516,
\* 523, 537 and 546.
manager_start_node(m, f, buf) ==
    IF m.status \in {Running, Starting}
    THEN [m |-> m, f |-> f, buf |-> buf, res |-> Ok]
    ELSE LET started == manager_add_logs(buf, 1)
             failed(msg, res) ==
                 [m |-> [m EXCEPT !.status = Error(msg)], f |-> f,
                  buf |-> started, res |-> res]
         IN
    IF f.data_dir = "file"
    THEN failed("Data directory path exists but is not a directory",
                ErrNotADirectory)
    ELSE IF f.data_dir = "orphan"
    THEN failed("Failed to create parent directory", ErrCreateParent)
    ELSE IF f.data_dir = "absent" /\ ~f.writable
    THEN failed("Failed to create data directory", ErrCreateDataDir)
    ELSE IF f.data_dir = "empty"
    THEN failed("Data directory verification failed after creation",
                ErrVerification)
    ELSE LET g == [f EXCEPT !.data_dir = "dir"]
             verified == manager_add_logs(started, 3)
         IN  IF ~g.pma_ok
             THEN [m |-> [m EXCEPT !.status =
                             Error("Nockchain initialization failed")],
                   f |-> g, buf |-> manager_add_logs(verified, 1),
                   res |-> ErrInitialization]
             ELSE [m |-> [m EXCEPT !.status = Starting, !.pc = "awaiting",
                                   !.awaits = 0],
                   f |-> g, buf |-> manager_add_logs(verified, 4),
                   res |-> Poll_Pending]

\* One more poll of a suspended start_node: the await completes.  After the
\* sleep of a peer the connection attempt begins and awaits in its turn;
\* after the attempt its result is logged (565) and either the next peer is
\* announced (546) or, after the last peer, the rest of the initialisation
\* is logged (579, 589, 603, 615), start_node logs (284), sets the status to
\* Running, logs again (326) and returns Ok.
manager_start_node_poll(m, buf) ==
    LET resumed == m.awaits + 1
    IN  IF resumed = TotalAwaits
        THEN [m |-> [m EXCEPT !.status = Running, !.pc = "idle",
                              !.awaits = 0],
              buf |-> manager_add_logs(buf, 7), res |-> Ok]
        ELSE [m |-> [m EXCEPT !.awaits = resumed],
              buf |-> IF resumed % AwaitsPerPeer = 0
                      THEN manager_add_logs(buf, 2) ELSE buf,
              res |-> Poll_Pending]

\* The start_node future is dropped at an await: nothing more of it runs.
manager_start_node_drop(m) == [m EXCEPT !.pc = "idle", !.awaits = 0]

\* stop_node: it has no await.  It logs after each of its two status
\* changes (371, 393).
manager_stop_node(m, buf) ==
    IF m.status \in {Stopped, Stopping}
    THEN [m |-> m, buf |-> buf, res |-> Ok]
    ELSE LET stopping == [m EXCEPT !.status = Stopping]
         IN  [m |-> [stopping EXCEPT !.status = Stopped],
              buf |-> manager_add_logs(buf, 2), res |-> Ok]

\* Node(): `if init_count > 5` returns the error element.
InitCountLimit == 5

\* The Node component after its first render: the signals node_status,
\* is_starting, is_stopping, log_level and auto_scroll; the start task
\* ("start": spawned and not over; "hung": the thread of the event loop is
\* inside a lock() that never returns); the stop tasks spawned and not yet
\* run; COMPONENT_INIT_COUNT, the number of calls of Node() so far; the
\* element the last render returned ("node": the page with its controls and
\* NodeConsole, "guard": the error element, which has no control) and the
\* props NodeConsole got in that render; whether a signal the component
\* reads was written since.
Node_new ==
    [node_status |-> Stopped, is_starting |-> FALSE, is_stopping |-> FALSE,
     log_level |-> "info", auto_scroll |-> TRUE,
     task |-> "none", stop_tasks |-> 0, init_count |-> 1, page |-> "node",
     shown |-> [status |-> Stopped, is_starting |-> FALSE,
                is_stopping |-> FALSE],
     dirty |-> FALSE]

\* The values of the log-level select.
LogLevels == {"trace", "debug", "info", "warn", "error"}

\* NodeConsole: the button that calls on_start_node is on the page for
\* Stopped (disabled while is_starting) and for Error, as of the last
\* render.
start_button_enabled(d) ==
    /\ d.page = "node"
    /\ \/ d.shown.status = Stopped /\ ~d.shown.is_starting
       \/ d.shown.status[1] = "Error"

\* NodeConsole: the button that calls on_stop_node is on the page for
\* Running (disabled while is_stopping), as of the last render.
stop_button_enabled(d) ==
    /\ d.page = "node"
    /\ d.shown.status = Running
    /\ ~d.shown.is_stopping

\* start_node_handler, up to the spawn.
start_node_handler(d) ==
    IF d.is_starting \/ d.node_status \in {Running, Starting}
    THEN d
    ELSE [d EXCEPT !.is_starting = TRUE, !.node_status = Starting,
                   !.task = "start", !.dirty = TRUE]

\* The end of the task start_node_handler spawned, given start_result.
start_task_end(d, res) ==
    [d EXCEPT !.node_status = IF res = Ok THEN Running
                              ELSE Error("Failed to start node"),
              !.is_starting = FALSE, !.task = "none", !.dirty = TRUE]

\* stop_node_handler, up to the spawn: it has no guard.
stop_node_handler(d) ==
    [d EXCEPT !.is_stopping = TRUE, !.node_status = Stopping,
              !.stop_tasks = @ + 1, !.dirty = TRUE]

\* The end of a task stop_node_handler spawned, given stop_result.
stop_task_end(d, res) ==
    [d EXCEPT !.node_status = IF res = Ok THEN Stopped
                              ELSE Error("Failed to stop node"),
              !.is_stopping = FALSE, !.stop_tasks = @ - 1, !.dirty = TRUE]

\* onchange of the log-level select.
set_log_level(d, level) == [d EXCEPT !.log_level = level, !.dirty = TRUE]

\* onchange of the auto-scroll checkbox.
set_auto_scroll(d, checked) ==
    [d EXCEPT !.auto_scroll = checked, !.dirty = TRUE]

\* One call of Node().  The static counter is read and incremented; past
\* the limit the body returns the error element at once.  Otherwise the
\* body goes on to `node_runner.read().lock()`: while a start_node future
\* is suspended its task holds the guard, and the lock() does not return.
\* Otherwise NodeConsole gets the current values of the signals.
render(d, m) ==
    LET counted == [d EXCEPT !.init_count = @ + 1]
    IN  IF d.init_count > InitCountLimit
        THEN [counted EXCEPT !.page = "guard", !.dirty = FALSE]
        ELSE IF m.pc = "awaiting"
        THEN [counted EXCEPT !.task = "hung"]
        ELSE [counted EXCEPT
                 !.page = "node", !.dirty = FALSE,
                 !.shown = [status |-> d.node_status,
                            is_starting |-> d.is_starting,
                            is_stopping |-> d.is_stopping]]

NockchainTransaction_new(transaction_data) ==
    [transaction_data |-> transaction_data,
     hash |-> Sha256(transaction_data),
     inputs |-> <<>>,
     outputs |-> <<>>,
     fee |-> 0]

\* BlockchainConfig::default().initial_difficulty, 0x1d00ffff.
InitialDifficulty == 486604799

AnInput ==
    [previous_output |-> SpentOutPoint, signature |-> <<>>,
     public_key |-> "pkA", amount |-> 2]
AnOutput ==
    [amount |-> 1, recipient_address |-> Address_to_string("A"),
     script_pubkey |-> <<>>]

\* The transactions blocks are built from: created by new(), then given
\* inputs and outputs (or not), or a hash of 1 or 33 plain bytes.
TxPool ==
    { [NockchainTransaction_new(<<1>>) EXCEPT
          !.inputs = <<AnInput>>, !.outputs = <<AnOutput>>],
      [NockchainTransaction_new(<<2>>) EXCEPT
          !.inputs = <<AnInput>>, !.outputs = <<AnOutput>>, !.hash = <<7>>],
      [NockchainTransaction_new(<<3>>) EXCEPT !.inputs = <<AnInput>>],
      [NockchainTransaction_new(<<4>>) EXCEPT !.outputs = <<AnOutput>>],
      NockchainTransaction_new(<<5>>) }

\* The values a field of a transaction is overwritten with.
FieldValues(field) ==
    CASE field = "transaction_data" -> {<<9>>}
      [] field = "hash" -> {Sha256(<<9>>), <<7, 0>>, <<7, 1>>}
      [] field = "inputs" -> {<<>>, <<AnInput, AnInput>>}
      [] field = "outputs" -> {<<>>, <<AnOutput, AnOutput>>}
      [] field = "fee" -> {1}

TxFields == {"transaction_data", "hash", "inputs", "outputs", "fee"}

\* The digests the proof of work may meet: below the target, the target
\* itself, above the target.
HashSamples ==
    {Zero32, difficulty_to_target(InitialDifficulty), [i \in 1 .. HashLen |-> 255]}

(***************************************************************************)
(* Initial state: every component as its constructor leaves it.            *)
(***************************************************************************)
NoBlock == <<>>
EmptyMap == <<>>
\* No `&mut self` call of a manager is under way.  Otherwise: the method,
\* its argument and the local it holds between its two writes.
NoBorrow == [op |-> "none", arg |-> <<>>, held |-> <<>>]
\* No mine() call yet: the block at the call, the tries made (nonce and
\* whether the header met its target), and the tries made after a stop
\* request.
NoMine == [entry |-> NoBlock, tried |-> <<>>, after_stop |-> 0]

Init ==
    /\ notes = EmptyMap
    /\ address_balances = EmptyMap
    /\ builder = TransactionBuilder_new
    /\ pending_transactions = <<>>
    /\ confirmed_transactions = <<>>
    /\ submitted = EmptyMap
    /\ now = 0
    /\ block = NoBlock
    /\ merkle_txs = <<>>
    /\ sha_oracle = EmptyMap
    /\ spent_ids = {}
    /\ mine_pc = None
    /\ mine_log = NoMine
    /\ stop_requested = FALSE
    /\ keys = EmptyMap
    /\ encrypted_storage = EmptyMap
    /\ key_log = [registered |-> {}, removed |-> {}]
    /\ fs = [data_dir |-> "dir", lock |-> "absent", writable |-> TRUE,
             pma_ok |-> TRUE, prepared |-> FALSE]
    /\ runner = [r \in Runners |-> NockchainNodeRunner_new]
    /\ manager = NockchainNodeManager_new
    /\ desktop = Node_new
    /\ logs = [manager |-> manager_logs_new, runner |-> [r \in Runners |-> <<>>]]
    /\ overflow_checks \in BOOLEAN
    /\ borrow = NoBorrow
    /\ last = [op |-> "new", arg |-> <<>>, res |-> Ok, val |-> <<>>]
    /\ ops = 0

\* A panic ends the process; the call budget bounds the behaviour.
CanCall == last.res # Panic /\ ops < MaxOps /\ mine_pc = None

\* A read that starts whatever `&mut self` call is under way.
shared_borrow_during_mutation(b) == TRUE

\* A method that takes `&self` can be called: no call that took `&mut self`
\* of the same manager has yet to return.
shared_borrow(b) == b = NoBorrow

(***************************************************************************)
(* Ledger actions.                                                         *)
(***************************************************************************)
AddNote(note) ==
    /\ CanCall
    /\ LET r == add_note(BM, note, overflow_checks)
       IN  /\ notes' = r.notes
           /\ address_balances' = r.address_balances
           /\ last' = [op |-> "add_note", arg |-> note.id, res |-> r.res, val |-> <<>>]
    /\ UNCHANGED spent_ids
    /\ ops' = ops + 1
    /\ UNCHANGED <<builder_vars, txm_vars, block_vars, mine_vars, key_vars, node_vars, overflow_checks,
                   borrow>>

SpendNote(note_id) ==
    /\ CanCall
    /\ LET r == spend_note(BM, note_id)
       IN  /\ notes' = r.notes
           /\ address_balances' = r.address_balances
           /\ last' = [op |-> "spend_note", arg |-> note_id, res |-> r.res,
                      val |-> <<>>]
           /\ spent_ids' = IF r.res = Ok THEN spent_ids \cup {note_id}
                           ELSE spent_ids
    /\ ops' = ops + 1
    /\ UNCHANGED <<builder_vars, txm_vars, block_vars, mine_vars, key_vars, node_vars, overflow_checks,
                   borrow>>

Next ==
    \/ \E note \in NoteInputs : AddNote(note)
    \/ \E id \in NoteIds : SpendNote(id)

Spec == Init /\ [][Next]_vars

\* get_spendable_notes(address, amount) returning `result`.
GetSpendableNotes(address, amount, result) ==
    /\ CanCall
    /\ shared_borrow(borrow)
    /\ result \in get_spendable_notes(BM, address, amount)
    /\ last' = [op |-> "get_spendable_notes",
                arg |-> [address |-> address, amount |-> amount],
                res |-> Ok, val |-> result]
    /\ ops' = ops + 1
    /\ UNCHANGED <<ledger_vars, builder_vars, txm_vars, block_vars, mine_vars,
                   key_vars, node_vars, overflow_checks,
                   borrow>>

\* The ledger with its query.
NextNotes ==
    \/ \E note \in NoteInputs : AddNote(note)
    \/ \E id \in NoteIds : SpendNote(id)
    \/ \E address \in Addresses, amount \in Amounts :
          \E result \in get_spendable_notes(BM, address, amount) :
             GetSpendableNotes(address, amount, result)

SpecNotes == Init /\ [][NextNotes]_vars

(***************************************************************************)
(* TransactionBuilder actions.                                             *)
(***************************************************************************)
Alive == last.res # Panic

AddInput(input) ==
    /\ Alive
    /\ Len(builder.inputs) < MaxLen
    /\ builder' = [builder EXCEPT !.inputs = Append(@, input)]
    /\ last' = [op |-> "add_input", arg |-> <<>>, res |-> Ok, val |-> <<>>]
    /\ UNCHANGED <<ledger_vars, txm_vars, block_vars, mine_vars, key_vars, node_vars, overflow_checks, ops,
                   borrow>>

AddOutput(output) ==
    /\ Alive
    /\ Len(builder.outputs) < MaxLen
    /\ builder' = [builder EXCEPT !.outputs = Append(@, output)]
    /\ last' = [op |-> "add_output", arg |-> <<>>, res |-> Ok, val |-> <<>>]
    /\ UNCHANGED <<ledger_vars, txm_vars, block_vars, mine_vars, key_vars, node_vars, overflow_checks, ops,
                   borrow>>

SetFee(fee) ==
    /\ Alive
    /\ builder' = [builder EXCEPT !.fee = fee]
    /\ last' = [op |-> "set_fee", arg |-> <<>>, res |-> Ok, val |-> <<>>]
    /\ UNCHANGED <<ledger_vars, txm_vars, block_vars, mine_vars, key_vars, node_vars, overflow_checks, ops,
                   borrow>>

Validate ==
    /\ Alive
    /\ LET r == validate(builder, overflow_checks)
       IN  last' = [op |-> "validate", arg |-> <<>>, res |-> r.res, val |-> r.val]
    /\ UNCHANGED <<ledger_vars, builder_vars, txm_vars, block_vars, mine_vars,
                   key_vars, node_vars, overflow_checks, ops,
                   borrow>>

NextBuilder ==
    \/ \E input \in TransactionInputs : AddInput(input)
    \/ \E output \in TransactionOutputs : AddOutput(output)
    \/ \E fee \in Fees : SetFee(fee)
    \/ Validate

SpecBuilder == Init /\ [][NextBuilder]_vars

(***************************************************************************)
(* TransactionManager actions.  Utc::now() reads the clock `now`, which    *)
(* Tick advances.                                                          *)
(***************************************************************************)
Tick ==
    /\ Alive
    /\ now < MaxTime
    /\ now' = now + 1
    /\ UNCHANGED <<ledger_vars, builder_vars, pending_transactions,
                   confirmed_transactions, submitted, block_vars, mine_vars,
                   key_vars, node_vars, overflow_checks, last, ops,
                   borrow>>

AddPendingTransaction(signed_tx, is_outgoing) ==
    /\ Alive
    /\ Len(pending_transactions) + Len(confirmed_transactions) < MaxTxs
    /\ LET r == add_pending_transaction(TM, signed_tx, is_outgoing, now,
                                        overflow_checks)
       IN  /\ pending_transactions' = r.pending_transactions
           /\ confirmed_transactions' = r.confirmed_transactions
           /\ last' = [op |-> "add_pending_transaction", arg |-> signed_tx.id,
                       res |-> r.res, val |-> <<>>]
    /\ submitted' =
          map_insert(submitted, signed_tx.id,
                     (IF signed_tx.id \in DOMAIN submitted
                      THEN submitted[signed_tx.id] ELSE {})
                     \cup outpoints_of(signed_tx))
    /\ UNCHANGED <<ledger_vars, builder_vars, now, block_vars, mine_vars,
                   key_vars, node_vars, overflow_checks, ops,
                   borrow>>

ConfirmTransaction(tx_id, block_height) ==
    /\ Alive
    /\ LET r == confirm_transaction(TM, tx_id, block_height, now)
       IN  /\ pending_transactions' = r.pending_transactions
           /\ confirmed_transactions' = r.confirmed_transactions
           /\ last' = [op |-> "confirm_transaction",
                       arg |-> <<tx_id, block_height>>,
                       res |-> r.res, val |-> <<>>]
    /\ UNCHANGED <<ledger_vars, builder_vars, submitted, now, block_vars, mine_vars,
                   key_vars, node_vars, overflow_checks, ops,
                   borrow>>

GetAllTransactions ==
    /\ Alive
    /\ shared_borrow(borrow)
    /\ last' = [op |-> "get_all_transactions", arg |-> <<>>, res |-> Ok,
                val |-> get_all_transactions(TM)]
    /\ UNCHANGED <<ledger_vars, builder_vars, txm_vars, block_vars, mine_vars,
                   key_vars, node_vars, overflow_checks, ops,
                   borrow>>

NextTxm ==
    \/ Tick
    \/ GetAllTransactions
    \/ \E signed_tx \in SignedTxs, is_outgoing \in BOOLEAN :
          AddPendingTransaction(signed_tx, is_outgoing)
    \/ \E tx_id \in TxIds, block_height \in Heights :
          ConfirmTransaction(tx_id, block_height)

SpecTxm == Init /\ [][NextTxm]_vars

(***************************************************************************)
(* The wallet: a BalanceManager and a TransactionManager side by side.     *)
(* The Notes come from the output that the pending transaction spends.     *)
(***************************************************************************)
WalletNotes ==
    {n \in NoteInputs :
        ~n.spent /\ ~n.locked /\ is_some(n.block_height) /\ n.amount = 1}

NextWallet ==
    \/ \E note \in WalletNotes : AddNote(note)
    \/ \E id \in NoteIds : SpendNote(id)
    \/ \E signed_tx \in SignedTxs : AddPendingTransaction(signed_tx, TRUE)
    \/ \E tx_id \in TxIds : ConfirmTransaction(tx_id, 7)

SpecWallet == Init /\ [][NextWallet]_vars

(***************************************************************************)
(* Reads among mutations.  The mutations that write twice are taken write  *)
(* by write, so that the state between the two writes is a state of the    *)
(* model.  Every mutation takes `&mut self` and every read `&self`: a call *)
(* starts only when the borrow it needs can be taken.                      *)
(***************************************************************************)
GetBalance(address) ==
    /\ CanCall
    /\ shared_borrow(borrow)
    /\ last' = [op |-> "get_balance", arg |-> address, res |-> Ok,
                val |-> get_balance(BM, address)]
    /\ ops' = ops + 1
    /\ UNCHANGED <<ledger_vars, builder_vars, txm_vars, block_vars, mine_vars,
                   key_vars, node_vars, overflow_checks, borrow>>

\* add_note up to `self.notes.insert(note.id, note)`.
AddNoteInsert(note) ==
    /\ CanCall
    /\ borrow = NoBorrow
    /\ notes' = map_insert(notes, note.id, note)
    /\ borrow' = [op |-> "add_note", arg |-> note, held |-> <<>>]
    /\ UNCHANGED <<address_balances, spent_ids, last, ops, builder_vars,
                   txm_vars, block_vars, mine_vars, key_vars, node_vars,
                   overflow_checks>>

\* add_note from the balance entry on, to its return.
AddNoteCredit ==
    /\ borrow.op = "add_note"
    /\ LET r == add_note(BM, borrow.arg, overflow_checks)
       IN  /\ address_balances' = r.address_balances
           /\ last' = [op |-> "add_note", arg |-> borrow.arg.id,
                       res |-> r.res, val |-> <<>>]
    /\ borrow' = NoBorrow
    /\ ops' = ops + 1
    /\ UNCHANGED <<notes, spent_ids, builder_vars, txm_vars, block_vars,
                   mine_vars, key_vars, node_vars, overflow_checks>>

\* spend_note up to `note.spent = true`; a call that finds no Note or a
\* spent Note returns here.
SpendNoteMark(note_id) ==
    /\ CanCall
    /\ borrow = NoBorrow
    /\ LET r == spend_note(BM, note_id)
       IN  IF r.res \in {ErrNoteNotFound, ErrNoteSpent}
           THEN /\ last' = [op |-> "spend_note", arg |-> note_id,
                            res |-> r.res, val |-> <<>>]
                /\ ops' = ops + 1
                /\ UNCHANGED <<notes, borrow>>
           ELSE /\ notes' = [notes EXCEPT ![note_id].spent = TRUE]
                /\ borrow' = [op |-> "spend_note", arg |-> note_id,
                              held |-> notes[note_id]]
                /\ UNCHANGED <<last, ops>>
    /\ UNCHANGED <<address_balances, spent_ids, builder_vars, txm_vars,
                   block_vars, mine_vars, key_vars, node_vars,
                   overflow_checks>>

\* spend_note from the balance update on, to its return.
SpendNoteSettle ==
    /\ borrow.op = "spend_note"
    /\ LET r == spend_note([notes |-> [notes EXCEPT ![borrow.arg] = borrow.held],
                            address_balances |-> address_balances],
                           borrow.arg)
       IN  /\ address_balances' = r.address_balances
           /\ last' = [op |-> "spend_note", arg |-> borrow.arg,
                       res |-> r.res, val |-> <<>>]
           /\ spent_ids' = IF r.res = Ok THEN spent_ids \cup {borrow.arg}
                           ELSE spent_ids
    /\ borrow' = NoBorrow
    /\ ops' = ops + 1
    /\ UNCHANGED <<notes, builder_vars, txm_vars, block_vars, mine_vars,
                   key_vars, node_vars, overflow_checks>>

\* confirm_transaction up to `self.pending_transactions.remove(pos)`; a
\* call that finds no record returns here.
ConfirmRemove(tx_id, block_height) ==
    /\ Alive
    /\ borrow = NoBorrow
    /\ LET pos == position_from(pending_transactions, tx_id, 1)
       IN  IF pos = 0
           THEN /\ last' = [op |-> "confirm_transaction",
                            arg |-> <<tx_id, block_height>>,
                            res |-> ErrTxNotFound, val |-> <<>>]
                /\ UNCHANGED <<pending_transactions, borrow>>
           ELSE /\ pending_transactions' = vec_remove(pending_transactions, pos)
                /\ borrow' = [op |-> "confirm_transaction",
                              arg |-> <<tx_id, block_height>>,
                              held |-> pending_transactions[pos]]
                /\ UNCHANGED last
    /\ UNCHANGED <<ledger_vars, builder_vars, confirmed_transactions,
                   submitted, now, block_vars, mine_vars, key_vars, node_vars,
                   overflow_checks, ops>>

\* confirm_transaction from the status change on, to its return.
ConfirmPush ==
    /\ borrow.op = "confirm_transaction"
    /\ confirmed_transactions' =
          Append(confirmed_transactions,
                 [borrow.held EXCEPT !.status = Confirmed(borrow.arg[2]),
                                     !.confirmed_at = Some(now)])
    /\ last' = [op |-> "confirm_transaction", arg |-> borrow.arg,
                res |-> Ok, val |-> <<>>]
    /\ borrow' = NoBorrow
    /\ UNCHANGED <<ledger_vars, builder_vars, pending_transactions, submitted,
                   now, block_vars, mine_vars, key_vars, node_vars,
                   overflow_checks, ops>>

\* The Notes of the read scenarios: unlocked, unconfirmed Notes of 1 for
\* address A.
ReadNotes ==
    {n \in NoteInputs : n.address = "A" /\ n.amount = 1 /\ ~n.locked
                           /\ n.block_height = None}

NextReads ==
    \/ \E note \in ReadNotes : AddNoteInsert(note)
    \/ AddNoteCredit
    \/ \E id \in NoteIds : SpendNoteMark(id)
    \/ SpendNoteSettle
    \/ \E address \in Addresses : GetBalance(address)
    \/ \E result \in get_spendable_notes(BM, "A", 1) :
          GetSpendableNotes("A", 1, result)
    \/ \E signed_tx \in SignedTxs :
          borrow = NoBorrow /\ AddPendingTransaction(signed_tx, TRUE)
    \/ \E tx_id \in TxIds : ConfirmRemove(tx_id, 7)
    \/ ConfirmPush
    \/ GetAllTransactions

SpecReads == Init /\ [][NextReads]_vars

(***************************************************************************)
(* Ledger totals: add_note, get_balance(address).total() and               *)
(* get_total_balance().                                                    *)
(***************************************************************************)
BalanceTotal(address) ==
    /\ CanCall
    /\ LET r == Balance_total(get_balance(BM, address), overflow_checks)
       IN  last' = [op |-> "balance_total", arg |-> address, res |-> r.res,
                    val |-> r.val]
    /\ ops' = ops + 1
    /\ UNCHANGED <<ledger_vars, builder_vars, txm_vars, block_vars, mine_vars,
                   key_vars, node_vars, overflow_checks,
                   borrow>>

GetTotalBalance ==
    /\ CanCall
    /\ LET r == get_total_balance(BM, overflow_checks)
       IN  last' = [op |-> "get_total_balance", arg |-> <<>>, res |-> r.res,
                    val |-> r.val]
    /\ ops' = ops + 1
    /\ UNCHANGED <<ledger_vars, builder_vars, txm_vars, block_vars, mine_vars,
                   key_vars, node_vars, overflow_checks,
                   borrow>>

\* Fresh Notes: unspent and unlocked.
FreshNotes == {n \in NoteInputs : ~n.spent /\ ~n.locked}

NextTotals ==
    \/ \E note \in FreshNotes : AddNote(note)
    \/ \E address \in Addresses : BalanceTotal(address)
    \/ GetTotalBalance

SpecTotals == Init /\ [][NextTotals]_vars

(***************************************************************************)
(* Node runner actions.  Prepare is the state of the disk before any       *)
(* runner starts.  A start_node call runs from StartNode to the step that  *)
(* returns and records the result in `last`.                               *)
(***************************************************************************)
not_node_vars ==
    <<ledger_vars, builder_vars, txm_vars, block_vars, mine_vars, key_vars,
      overflow_checks, borrow>>
not_runner_vars == <<not_node_vars, manager, desktop>>

\* The mark of a return: it alternates, so that every return of start_node
\* or stop_node changes `last`.
return_mark == IF last.val = <<>> THEN <<1>> ELSE <<>>

\* One more call of start_node or stop_node can be made.
CanCallNode == ops < MaxNodeCalls

\* A poll of the start_node future of runner r that finds it suspended.
runner_pending(r) ==
    [op |-> "start_node", arg |-> r, res |-> Poll_Pending, val |-> <<>>]

\* The log buffer of runner r becomes buf.
runner_logs(r, buf) == [logs EXCEPT !.runner[r] = buf]

\* acquire has failed with res: start_node is about to return it.
acquire_fails(r, res) ==
    [runner EXCEPT ![r].pc = "acquire_failed", ![r].call = "start_node",
                   ![r].result = res]

\* The call of runner r that has given up its NodeLockfile returns; rs is
\* the state of the runners by then.  stop_node logs twice more (942, 948)
\* before its Ok.
ReturnNode(r, rs) ==
    /\ runner' = [rs EXCEPT ![r].pc = "idle", ![r].call = "none",
                            ![r].result = "none"]
    /\ logs' = IF runner[r].call = "stop_node"
               THEN runner_logs(r, runner_add_logs(logs.runner[r], 2))
               ELSE logs
    /\ last' = [op |-> runner[r].call, arg |-> r, res |-> runner[r].result,
                val |-> return_mark]

Prepare(data_dir, lock, writable, pma_ok) ==
    /\ ~fs.prepared
    /\ last.op = "new"
    /\ ops = 0
    /\ \A r \in Runners : runner[r].pc = "idle"
    /\ lock # "absent" => data_dir \in {"dir", "empty"}
    /\ fs' = [data_dir |-> data_dir, lock |-> lock, writable |-> writable,
              pma_ok |-> pma_ok, prepared |-> TRUE]
    /\ UNCHANGED <<runner, last, logs, ops, not_runner_vars>>

\* start_node up to NodeLockfile::new.
StartNode(r) ==
    /\ runner[r].pc = "idle"
    /\ CanCallNode
    /\ ops' = ops + 1
    /\ IF runner[r].is_running
       THEN /\ last' = [op |-> "start_node", arg |-> r,
                        res |-> ErrAlreadyRunning, val |-> return_mark]
            /\ UNCHANGED runner
       ELSE /\ runner' = [runner EXCEPT ![r].pc = "exists",
                                        ![r].fresh = (fs.data_dir = "absent")]
            /\ UNCHANGED last
    /\ UNCHANGED <<fs, logs, not_runner_vars>>

\* acquire: `if self.lockfile_path.exists()`.
AcquireExists(r) ==
    /\ runner[r].pc = "exists"
    /\ runner' = [runner EXCEPT
                     ![r].pc = IF lockfile_exists(fs) THEN "read" ELSE "create"]
    /\ UNCHANGED <<fs, last, logs, ops, not_runner_vars>>

\* acquire: read_to_string and the parse of the first line.  Every read
\* error, that of a file removed since exists() included, goes to the
\* removal of the Err(_) arm; a file read without a PID on its first line is
\* left for the create step to truncate.
AcquireRead(r) ==
    /\ runner[r].pc = "read"
    /\ runner' = [runner EXCEPT
                     ![r].pc = IF fs.lock \in LivePids \cup {DeadPid}
                               THEN "liveness"
                               ELSE IF ~lockfile_exists(fs)
                                       \/ fs.lock = "unreadable"
                               THEN "remove_corrupted"
                               ELSE "create",
                     ![r].seen = IF fs.lock \in LivePids \cup {DeadPid}
                                 THEN fs.lock ELSE @]
    /\ UNCHANGED <<fs, last, logs, ops, not_runner_vars>>

\* acquire: the Err(_) arm of read_to_string removes whatever file is at
\* the lock path by now.
AcquireRemoveCorrupted(r) ==
    /\ runner[r].pc = "remove_corrupted"
    /\ fs' = remove_file(fs)
    /\ runner' = unlink_handles([runner EXCEPT ![r].pc = "create"], fs, fs')
    /\ UNCHANGED <<last, logs, ops, not_runner_vars>>

\* acquire: `kill -0` of the PID read.  A live owner ends acquire with an
\* error.
AcquireLiveness(r) ==
    /\ runner[r].pc = "liveness"
    /\ runner' = IF runner[r].seen \in LivePids
                 THEN acquire_fails(r, ErrInstanceRunning)
                 ELSE [runner EXCEPT ![r].pc = "remove_stale"]
    /\ UNCHANGED <<fs, last, logs, ops, not_runner_vars>>

\* acquire: the stale lockfile is removed.
AcquireRemoveStale(r) ==
    /\ runner[r].pc = "remove_stale"
    /\ fs' = remove_file(fs)
    /\ runner' = unlink_handles([runner EXCEPT ![r].pc = "create"], fs, fs')
    /\ UNCHANGED <<last, logs, ops, not_runner_vars>>

\* acquire: OpenOptions create + write + truncate.  It fails when the
\* directory of the lock path does not exist.
AcquireCreate(r) ==
    /\ runner[r].pc = "create"
    /\ IF ~lock_dir_exists(fs)
       THEN /\ runner' = acquire_fails(r, ErrCreateLockfile)
            /\ UNCHANGED fs
       ELSE /\ fs' = [fs EXCEPT !.lock = "empty"]
            /\ runner' = [runner EXCEPT ![r].pc = "write", ![r].handle = TRUE]
    /\ UNCHANGED <<last, logs, ops, not_runner_vars>>

\* start_node: `lockfile.acquire()?` returns the error of acquire.  The
\* NodeLockfile of the call goes out of scope, and its Drop releases the
\* lock path.
AcquireFail(r) ==
    /\ runner[r].pc = "acquire_failed"
    /\ fs' = drop_lockfile(fs)
    /\ ReturnNode(r, unlink_handles(runner, fs, fs'))
    /\ UNCHANGED <<ops, not_runner_vars>>

\* acquire: write_all and sync_all through the open file; the bytes reach
\* the lock path only while the file is still linked there.
AcquireWrite(r) ==
    /\ runner[r].pc = "write"
    /\ fs' = IF runner[r].handle THEN [fs EXCEPT !.lock = process_id(r)]
             ELSE fs
    /\ runner' = [runner EXCEPT ![r].pc = "assign"]
    /\ UNCHANGED <<last, logs, ops, not_runner_vars>>

\* start_node: `self.lockfile = Some(lockfile)`.  The assignment drops the
\* NodeLockfile the field held before, and its Drop releases the lock path.
AssignLockfile(r) ==
    /\ runner[r].pc = "assign"
    /\ fs' = IF runner[r].lockfile THEN drop_lockfile(fs) ELSE fs
    /\ runner' = unlink_handles([runner EXCEPT ![r].pc = "acquired",
                                               ![r].lockfile = TRUE],
                                fs, fs')
    /\ UNCHANGED <<last, logs, ops, not_runner_vars>>

\* start_node has found the error res after the lockfile was assigned: it
\* goes on to give the lockfile up; buf is its log buffer by then.
FailStart(r, res, buf) ==
    /\ runner' = [runner EXCEPT ![r].pc = "take", ![r].call = "start_node",
                                ![r].result = res]
    /\ logs' = runner_logs(r, buf)
    /\ UNCHANGED <<fs, last>>

\* `if let Some(mut lockfile) = self.lockfile.take() { lockfile.release(); }`:
\* the field becomes None and the NodeLockfile taken releases the lock path.
\* With nothing to take the call returns.
TakeLockfile(r) ==
    /\ runner[r].pc = "take"
    /\ IF runner[r].lockfile
       THEN /\ fs' = release(fs)
            /\ runner' = unlink_handles([runner EXCEPT ![r].pc = "drop",
                                                       ![r].lockfile = FALSE],
                                        fs, fs')
            /\ UNCHANGED <<last, logs>>
       ELSE /\ ReturnNode(r, runner)
            /\ UNCHANGED fs
    /\ UNCHANGED <<ops, not_runner_vars>>

\* The end of the `if let` block: the NodeLockfile taken is dropped, and its
\* Drop releases the lock path once more; then the call returns.
DropTaken(r) ==
    /\ runner[r].pc = "drop"
    /\ fs' = drop_lockfile(fs)
    /\ ReturnNode(r, unlink_handles(runner, fs, fs'))
    /\ UNCHANGED <<ops, not_runner_vars>>

\* start_node: three log entries (740, 746, 753), then the data directory
\* is checked, created and verified, then five more entries (819, 835, 848,
\* 857, 869).  create_dir_all of the empty path succeeds and creates
\* nothing, and the verification fails.
StartDirectory(r) ==
    /\ runner[r].pc = "acquired"
    /\ LET locked == runner_add_logs(logs.runner[r], 3)
           verified == runner_add_logs(locked, 5)
       IN  CASE fs.data_dir = "dir" ->
                  /\ runner' = [runner EXCEPT ![r].pc = "init"]
                  /\ logs' = runner_logs(r, verified)
                  /\ UNCHANGED <<fs, last>>
             [] fs.data_dir = "file" -> FailStart(r, ErrNotADirectory, locked)
             [] fs.data_dir = "absent" /\ fs.writable ->
                  /\ fs' = [fs EXCEPT !.data_dir = "dir"]
                  /\ runner' = [runner EXCEPT ![r].pc = "init"]
                  /\ logs' = runner_logs(r, verified)
                  /\ UNCHANGED last
             [] fs.data_dir = "empty" -> FailStart(r, ErrVerification, locked)
             [] OTHER -> FailStart(r, ErrCreateDataDir, locked)
    /\ UNCHANGED <<ops, not_runner_vars>>

\* start_node: initialize_real_nockchain_node up to its first await.  It
\* logs (1077) and creates data_dir/pma; a failure is logged by start_node
\* (888), which releases the lockfile and returns the error; otherwise five
\* more entries (1097, 1110, 1118, 1132, 1144) precede the sleep of the
\* first peer.
StartInitialize(r) ==
    /\ runner[r].pc = "init"
    /\ LET begun == runner_add_logs(logs.runner[r], 1)
       IN  IF fs.pma_ok
           THEN /\ runner' = [runner EXCEPT ![r].pc = "awaiting",
                                            ![r].awaits = 0]
                /\ logs' = runner_logs(r, runner_add_logs(begun, 5))
                /\ last' = runner_pending(r)
                /\ UNCHANGED fs
           ELSE FailStart(r, ErrCreatePma, runner_add_logs(begun, 1))
    /\ UNCHANGED <<ops, not_runner_vars>>

\* One more poll of a suspended start_node: the await completes.  After the
\* sleep of a peer the connection attempt awaits in its turn; after the
\* attempt its result is logged (1164) and either the next peer is
\* announced (1144) or, after the last peer, the rest is logged (1178, 1188,
\* 1202), start_node logs (879), sets is_running, logs again (908) and
\* returns Ok.
StartPoll(r) ==
    /\ runner[r].pc = "awaiting"
    /\ LET resumed == runner[r].awaits + 1
       IN  IF resumed = TotalAwaits
           THEN /\ runner' = [runner EXCEPT ![r].pc = "idle",
                                            ![r].awaits = 0,
                                            ![r].is_running = TRUE]
                /\ logs' = runner_logs(r, runner_add_logs(logs.runner[r], 6))
                /\ last' = [op |-> "start_node", arg |-> r, res |-> Ok,
                            val |-> return_mark]
           ELSE /\ runner' = [runner EXCEPT ![r].awaits = resumed]
                /\ logs' = IF resumed % AwaitsPerPeer = 0
                           THEN runner_logs(r, runner_add_logs(logs.runner[r], 2))
                           ELSE logs
                /\ last' = runner_pending(r)
    /\ UNCHANGED <<fs, ops, not_runner_vars>>

\* The start_node future is dropped at an await: nothing more of it runs,
\* and the runner keeps what the call had assigned.
StartDrop(r) ==
    /\ runner[r].pc = "awaiting"
    /\ runner' = [runner EXCEPT ![r].pc = "idle", ![r].awaits = 0]
    /\ last' = [op |-> "start_node", arg |-> r, res |-> Dropped,
                val |-> return_mark]
    /\ UNCHANGED <<fs, logs, ops, not_runner_vars>>

\* NockchainNodeRunner::stop_node up to the take of its lockfile: the
\* check of is_running, a log entry (927) and `self.is_running = false`.
StopNode(r) ==
    /\ runner[r].pc = "idle"
    /\ CanCallNode
    /\ ops' = ops + 1
    /\ IF ~runner[r].is_running
       THEN /\ last' = [op |-> "stop_node", arg |-> r, res |-> ErrNotRunning,
                        val |-> return_mark]
            /\ UNCHANGED <<runner, logs>>
       ELSE /\ runner' = [runner EXCEPT ![r].pc = "take",
                                        ![r].is_running = FALSE,
                                        ![r].call = "stop_node",
                                        ![r].result = Ok]
            /\ logs' = runner_logs(r, runner_add_logs(logs.runner[r], 1))
            /\ UNCHANGED last
    /\ UNCHANGED <<fs, not_runner_vars>>

NextRunner ==
    \/ \E data_dir \in {"absent", "dir", "file", "empty"},
          lock \in {"absent", "garbage", "unreadable", DeadPid},
          writable \in BOOLEAN, pma_ok \in BOOLEAN :
          Prepare(data_dir, lock, writable, pma_ok)
    \/ \E r \in Runners : StartNode(r)
    \/ \E r \in Runners : AcquireExists(r)
    \/ \E r \in Runners : AcquireRead(r)
    \/ \E r \in Runners : AcquireRemoveCorrupted(r)
    \/ \E r \in Runners : AcquireLiveness(r)
    \/ \E r \in Runners : AcquireRemoveStale(r)
    \/ \E r \in Runners : AcquireCreate(r)
    \/ \E r \in Runners : AcquireFail(r)
    \/ \E r \in Runners : AcquireWrite(r)
    \/ \E r \in Runners : AssignLockfile(r)
    \/ \E r \in Runners : StartDirectory(r)
    \/ \E r \in Runners : StartInitialize(r)
    \/ \E r \in Runners : StartPoll(r)
    \/ \E r \in Runners : StartDrop(r)
    \/ \E r \in Runners : StopNode(r)
    \/ \E r \in Runners : TakeLockfile(r)
    \/ \E r \in Runners : DropTaken(r)

SpecRunner == Init /\ [][NextRunner]_vars

(***************************************************************************)
(* NockchainNodeManager called directly: start_node, the polls of its      *)
(* future, the drop of its future, stop_node.                              *)
(***************************************************************************)
not_manager_vars == <<not_node_vars, runner, desktop>>
not_desktop_vars == <<not_node_vars, runner>>

manager_result(op, res) ==
    [op |-> op, arg |-> <<>>, res |-> res, val |-> return_mark]

\* The log buffer of the manager becomes buf.
manager_logs(buf) == [logs EXCEPT !.manager = buf]

DataDirs == {"dir", "absent", "file", "empty", "orphan"}

ManagerStartNode ==
    /\ manager.pc = "idle"
    /\ CanCallNode
    /\ ops' = ops + 1
    /\ LET out == manager_start_node(manager, fs, logs.manager)
       IN  /\ manager' = out.m
           /\ fs' = out.f
           /\ logs' = manager_logs(out.buf)
           /\ last' = manager_result("manager.start_node", out.res)
    /\ UNCHANGED not_manager_vars

ManagerPoll ==
    /\ manager.pc = "awaiting"
    /\ LET out == manager_start_node_poll(manager, logs.manager)
       IN  /\ manager' = out.m
           /\ logs' = manager_logs(out.buf)
           /\ last' = manager_result("manager.start_node", out.res)
    /\ UNCHANGED <<fs, ops, not_manager_vars>>

ManagerDrop ==
    /\ manager.pc = "awaiting"
    /\ manager' = manager_start_node_drop(manager)
    /\ last' = manager_result("manager.start_node", Dropped)
    /\ UNCHANGED <<fs, logs, ops, not_manager_vars>>

ManagerStopNode ==
    /\ manager.pc = "idle"
    /\ CanCallNode
    /\ ops' = ops + 1
    /\ LET out == manager_stop_node(manager, logs.manager)
       IN  /\ manager' = out.m
           /\ logs' = manager_logs(out.buf)
           /\ last' = manager_result("manager.stop_node", out.res)
    /\ UNCHANGED <<fs, not_manager_vars>>

NextManager ==
    \/ \E d \in DataDirs, w, p \in BOOLEAN : Prepare(d, "absent", w, p)
    \/ ManagerStartNode
    \/ ManagerPoll
    \/ ManagerDrop
    \/ ManagerStopNode

SpecManager == Init /\ [][NextManager]_vars

(***************************************************************************)
(* The Node page over one mount of the component: the events of its        *)
(* controls, the tasks the handlers spawn and the renders.  Handlers,      *)
(* tasks and renders all run on the thread of the event loop, one at a     *)
(* time, in any order: a render that is due, a resumption of the start     *)
(* task, its timeout and the next event of the user may each come first.   *)
(* Events reach the controls the last render has put on the page.          *)
(*                                                                         *)
(* The start task locks node_runner and keeps the guard while start_node   *)
(* is suspended; the body of Node and the stop task lock node_runner too,  *)
(* and a lock() on the thread that holds the mutex does not return.        *)
(***************************************************************************)
\* The thread of the event loop is not inside a lock() that never returns.
Idle == desktop.task # "hung"

StartClick ==
    /\ Idle
    /\ start_button_enabled(desktop)
    /\ CanCallNode
    /\ ops' = ops + 1
    /\ desktop' = start_node_handler(desktop)
    /\ UNCHANGED <<fs, manager, last, logs, not_desktop_vars>>

StopClick ==
    /\ Idle
    /\ stop_button_enabled(desktop)
    /\ CanCallNode
    /\ ops' = ops + 1
    /\ desktop' = stop_node_handler(desktop)
    /\ UNCHANGED <<fs, manager, last, logs, not_desktop_vars>>

LogLevelChange(level) ==
    /\ Idle
    /\ desktop.page = "node"
    /\ level # desktop.log_level
    /\ desktop' = set_log_level(desktop, level)
    /\ UNCHANGED <<fs, manager, last, logs, ops, not_desktop_vars>>

AutoScrollChange ==
    /\ Idle
    /\ desktop.page = "node"
    /\ desktop' = set_auto_scroll(desktop, ~desktop.auto_scroll)
    /\ UNCHANGED <<fs, manager, last, logs, ops, not_desktop_vars>>

\* The first poll of the task start_node_handler spawned: it locks the
\* manager, writes the `logs` signal and calls start_node.  When start_node
\* returns at once the guard is dropped and the task runs to its end;
\* otherwise the task is suspended with the guard.
StartTaskBegin ==
    /\ desktop.task = "start"
    /\ manager.pc = "idle"
    /\ LET out == manager_start_node(manager, fs, logs.manager)
       IN  /\ manager' = out.m
           /\ fs' = out.f
           /\ logs' = manager_logs(out.buf)
           /\ last' = manager_result("manager.start_node", out.res)
           /\ desktop' = IF out.res = Poll_Pending
                         THEN [desktop EXCEPT !.dirty = TRUE]
                         ELSE start_task_end(desktop, out.res)
    /\ UNCHANGED <<ops, not_desktop_vars>>

\* A resumption of the suspended task; after the last await of start_node
\* the guard is dropped and the task runs to its end.
StartTaskPoll ==
    /\ desktop.task = "start"
    /\ manager.pc = "awaiting"
    /\ LET out == manager_start_node_poll(manager, logs.manager)
       IN  /\ manager' = out.m
           /\ logs' = manager_logs(out.buf)
           /\ last' = manager_result("manager.start_node", out.res)
           /\ desktop' = IF out.res = Poll_Pending THEN desktop
                         ELSE start_task_end(desktop, out.res)
    /\ UNCHANGED <<fs, ops, not_desktop_vars>>

\* The 5-second timeout fires while start_node is suspended: the future and
\* its guard are dropped and the task ends with the timeout error.  (The
\* 30-second timeout wraps the 5-second one and never fires before it.)
StartTaskTimeout ==
    /\ desktop.task = "start"
    /\ manager.pc = "awaiting"
    /\ manager' = manager_start_node_drop(manager)
    /\ last' = manager_result("manager.start_node", Dropped)
    /\ desktop' = start_task_end(desktop, ErrLockTimeout)
    /\ UNCHANGED <<fs, logs, ops, not_desktop_vars>>

\* A task stop_node_handler spawned: it locks the manager, calls stop_node,
\* which has no await, and runs to its end.  While a suspended start_node
\* holds the guard the lock() does not return.
StopTask ==
    /\ Idle
    /\ desktop.stop_tasks > 0
    /\ IF manager.pc = "awaiting"
       THEN /\ desktop' = [desktop EXCEPT !.task = "hung"]
            /\ UNCHANGED <<manager, logs, last>>
       ELSE LET out == manager_stop_node(manager, logs.manager)
            IN  /\ manager' = out.m
                /\ logs' = manager_logs(out.buf)
                /\ last' = manager_result("manager.stop_node", out.res)
                /\ desktop' = stop_task_end(desktop, out.res)
    /\ UNCHANGED <<fs, ops, not_desktop_vars>>

\* A call of Node() that a written signal has made due.
Render ==
    /\ Idle
    /\ desktop.dirty
    /\ desktop' = render(desktop, manager)
    /\ UNCHANGED <<fs, manager, last, logs, ops, not_desktop_vars>>

NextDesktop ==
    \/ \E d \in DataDirs, w, p \in BOOLEAN : Prepare(d, "absent", w, p)
    \/ StartClick
    \/ StopClick
    \/ \E level \in LogLevels : LogLevelChange(level)
    \/ AutoScrollChange
    \/ StartTaskBegin
    \/ StartTaskPoll
    \/ StartTaskTimeout
    \/ StopTask
    \/ Render

SpecDesktop == Init /\ [][NextDesktop]_vars

(***************************************************************************)
(* The log buffers: add_log and get_logs of a manager and of a runner.     *)
(* The buffers belong to different objects; one behaviour fills one of     *)
(* them.                                                                   *)
(***************************************************************************)
not_log_vars == <<not_node_vars, fs, runner, manager, desktop, ops>>

ManagerLimits == {<<>>, <<0>>, <<1>>, <<50>>, <<2000>>}
RunnerCounts == {0, 1, 50, 100, 200}

\* No runner has logged.
NoRunnerLogs == \A r \in Runners : logs.runner[r] = <<>>
\* Only runner r may have logged.
OnlyRunnerLogs(r) ==
    /\ logs.manager = manager_logs_new
    /\ \A q \in Runners \ {r} : logs.runner[q] = <<>>

ManagerAddLog ==
    /\ NoRunnerLogs
    /\ next_entry(logs.manager) <= MaxLogs
    /\ logs' = manager_logs(manager_add_log(logs.manager,
                                            next_entry(logs.manager)))
    /\ last' = [op |-> "manager.add_log", arg |-> next_entry(logs.manager),
                res |-> Ok, val |-> <<>>]
    /\ UNCHANGED not_log_vars

ManagerGetLogs(limit) ==
    /\ NoRunnerLogs
    /\ last' = [op |-> "manager.get_logs", arg |-> limit, res |-> Ok,
                val |-> manager_get_logs(logs.manager, limit)]
    /\ UNCHANGED <<logs, not_log_vars>>

RunnerAddLog(r) ==
    /\ OnlyRunnerLogs(r)
    /\ next_entry(logs.runner[r]) <= MaxLogs
    /\ logs' = runner_logs(r, runner_add_log(logs.runner[r],
                                             next_entry(logs.runner[r])))
    /\ last' = [op |-> "runner.add_log", arg |-> <<r, next_entry(logs.runner[r])>>,
                res |-> Ok, val |-> <<>>]
    /\ UNCHANGED not_log_vars

RunnerGetLogs(r, count) ==
    /\ OnlyRunnerLogs(r)
    /\ last' = [op |-> "runner.get_logs", arg |-> <<r, count>>, res |-> Ok,
                val |-> runner_get_logs(logs.runner[r], count)]
    /\ UNCHANGED <<logs, not_log_vars>>

NextLogs ==
    \/ ManagerAddLog
    \/ \E limit \in ManagerLimits : ManagerGetLogs(limit)
    \/ \E r \in Runners : RunnerAddLog(r)
    \/ \E r \in Runners, count \in RunnerCounts : RunnerGetLogs(r, count)

SpecLogs == Init /\ [][NextLogs]_vars

(***************************************************************************)
(* Block actions.  The fields of a Block are public: AlterTransaction      *)
(* overwrites one field of one transaction and leaves the header alone.    *)
(* ValidateBlock computes the header's digest, whose bytes the oracle      *)
(* reveals at the first computation.                                       *)
(***************************************************************************)
NewBlock(transactions, bits) ==
    /\ CanCall
    /\ block = NoBlock
    /\ block' = Block_new(Zero32, transactions, 1, bits, now)
    /\ merkle_txs' = transactions
    /\ last' = [op |-> "block_new", arg |-> <<>>, res |-> Ok, val |-> <<>>]
    /\ ops' = ops + 1
    /\ UNCHANGED <<ledger_vars, builder_vars, txm_vars, sha_oracle, mine_vars,
                   key_vars, node_vars, overflow_checks,
                   borrow>>

AlterTransaction(i, field, value) ==
    /\ CanCall
    /\ block # NoBlock
    /\ i \in 1 .. Len(block.transactions)
    /\ block.transactions[i][field] # value
    /\ block' = [block EXCEPT !.transactions[i][field] = value]
    /\ last' = [op |-> "alter_transaction", arg |-> <<i, field>>, res |-> Ok,
                val |-> <<>>]
    /\ ops' = ops + 1
    /\ UNCHANGED <<ledger_vars, builder_vars, txm_vars, merkle_txs, sha_oracle,
                   mine_vars, key_vars, node_vars, overflow_checks,
                   borrow>>

ValidateBlock(digest) ==
    /\ CanCall
    /\ block # NoBlock
    /\ LET h == header_hash(block.header)
       IN  /\ h \in DOMAIN sha_oracle => digest = sha_oracle[h]
           /\ sha_oracle' = map_insert(sha_oracle, h, digest)
    /\ last' = [op |-> "block_validate", arg |-> <<>>,
                res |-> block_validate(block, sha_oracle'), val |-> <<>>]
    /\ ops' = ops + 1
    /\ UNCHANGED <<ledger_vars, builder_vars, txm_vars, block, merkle_txs,
                   mine_vars, key_vars, node_vars, overflow_checks,
                   borrow>>

BlockTxs ==
    {<<>>} \cup {<<a>> : a \in TxPool} \cup {<<a, b>> : a \in TxPool, b \in TxPool}

NextBlock ==
    \/ \E transactions \in BlockTxs : NewBlock(transactions, InitialDifficulty)
    \/ \E i \in 1 .. 2, field \in TxFields :
          \E value \in FieldValues(field) : AlterTransaction(i, field, value)
    \/ \E digest \in HashSamples : ValidateBlock(digest)

SpecBlock == Init /\ [][NextBlock]_vars

(***************************************************************************)
(* Mining.  mine() borrows the block for the whole call, so no other call  *)
(* runs until it returns; the clock goes on and a caller may ask for a     *)
(* stop.  MineCall enters the loop, MineStep is one pass of it (the digest *)
(* of the header is revealed by the oracle), MineExhausted is the return   *)
(* after the range has run out.  mine_log records the block at the call,   *)
(* the tries made and how many of them came after a stop request.          *)
(***************************************************************************)
MineCall ==
    /\ CanCall
    /\ block # NoBlock
    /\ mine_pc' = Some(0)
    /\ mine_log' = [entry |-> block, tried |-> <<>>, after_stop |-> 0]
    /\ stop_requested' = FALSE
    /\ last' = [op |-> "mine_call", arg |-> <<>>, res |-> Ok, val |-> <<>>]
    /\ ops' = ops + 1
    /\ UNCHANGED <<ledger_vars, builder_vars, txm_vars, block_vars,
                   key_vars, node_vars, overflow_checks,
                   borrow>>

MineStep(digest) ==
    /\ mine_pc # None
    /\ range_yields(mine_pc[1])
    /\ LET nonce == mine_pc[1]
           h == header_hash([block.header EXCEPT !.nonce = nonce])
       IN  /\ h \in DOMAIN sha_oracle => digest = sha_oracle[h]
           /\ sha_oracle' = map_insert(sha_oracle, h, digest)
           /\ LET r == mine_try(block, nonce, sha_oracle', now)
              IN  /\ block' = r.block
                  /\ mine_pc' = IF r.res = Ok THEN None ELSE Some(nonce + 1)
                  /\ last' = IF r.res = Ok
                             THEN [op |-> "mine", arg |-> <<>>, res |-> Ok,
                                   val |-> <<>>]
                             ELSE last
                  /\ mine_log' =
                        [mine_log EXCEPT
                            !.tried = Append(@, [nonce |-> nonce,
                                                 met |-> r.res = Ok]),
                            !.after_stop = IF stop_requested THEN @ + 1 ELSE @]
    /\ UNCHANGED <<ledger_vars, builder_vars, txm_vars, merkle_txs,
                   stop_requested, key_vars, node_vars, overflow_checks, ops,
                   borrow>>

MineExhausted ==
    /\ mine_pc # None
    /\ ~range_yields(mine_pc[1])
    /\ mine_pc' = None
    /\ last' = [op |-> "mine", arg |-> <<>>, res |-> ErrConsensus, val |-> <<>>]
    /\ UNCHANGED <<ledger_vars, builder_vars, txm_vars, block_vars, mine_log,
                   stop_requested, key_vars, node_vars, overflow_checks, ops,
                   borrow>>

\* A caller asks the running mine() to stop.  mine() takes no stop signal.
RequestStop ==
    /\ mine_pc # None
    /\ ~stop_requested
    /\ stop_requested' = TRUE
    /\ UNCHANGED <<ledger_vars, builder_vars, txm_vars, block_vars, mine_pc,
                   mine_log, key_vars, node_vars, overflow_checks, last, ops,
                   borrow>>

\* The transactions of the blocks that are mined: none or one.
MineTxs == {<<>>} \cup {<<a>> : a \in TxPool}

NextMine ==
    \/ \E transactions \in MineTxs : NewBlock(transactions, InitialDifficulty)
    \/ MineCall
    \/ \E digest \in HashSamples : MineStep(digest)
    \/ MineExhausted
    \/ RequestStop
    \/ Tick
    \/ \E digest \in HashSamples : ValidateBlock(digest)

SpecMine == Init /\ [][NextMine]_vars

(***************************************************************************)
(* The functions of the block code called on their own: meets_difficulty   *)
(* on a header with given bits whose digest is `digest`,                   *)
(* difficulty_to_target on given bits, calculate_merkle_root on a          *)
(* sequence of transactions.  The inputs are drawn from the sets below.    *)
(* The functions read nothing but their arguments, so a behaviour makes    *)
(* one call.                                                               *)
(***************************************************************************)
\* Longest transaction sequence a merkle root is computed of.
MaxBlockTxs == 3

Exponents == {0, 1, 2, 3, 4, 5, 29, 30, 31, 32, 33}
Mantissas == {0, 1, 65535, 1193046, 8388608, 16777215}
BitsSamples == {e * 16777216 + m : e \in Exponents, m \in Mantissas}

\* A digest that first differs from `target` at byte i, where it is smaller
\* (and larger in every later byte) or larger (and smaller in every later
\* byte).
Below(target, i) ==
    [j \in 1 .. HashLen |->
        IF j < i THEN target[j] ELSE IF j = i THEN target[i] - 1 ELSE 255]
Above(target, i) ==
    [j \in 1 .. HashLen |->
        IF j < i THEN target[j] ELSE IF j = i THEN target[i] + 1 ELSE 0]
DigestSamples(target) ==
    {Zero32, target, [i \in 1 .. HashLen |-> 255]}
    \cup {Below(target, i) : i \in {j \in 1 .. HashLen : target[j] > 0}}
    \cup {Above(target, i) : i \in {j \in 1 .. HashLen : target[j] < 255}}

\* Transactions whose hash is not 32 bytes long: 2 or 33 plain bytes.
LongHash(last_byte) == [i \in 1 .. HashLen + 1 |-> IF i > HashLen THEN last_byte ELSE 9]
MerklePool ==
    TxPool \cup
    { [NockchainTransaction_new(<<6>>) EXCEPT !.hash = <<7, 0>>],
      [NockchainTransaction_new(<<6>>) EXCEPT !.hash = LongHash(8)],
      [NockchainTransaction_new(<<6>>) EXCEPT !.hash = LongHash(9)] }

RECURSIVE SeqsUpTo(_, _)
\* The sequences over S of length at most n.
SeqsUpTo(S, n) ==
    IF n = 0 THEN {<<>>}
    ELSE LET shorter == SeqsUpTo(S, n - 1)
         IN  shorter \cup {Append(q, x) : q \in shorter, x \in S}

FirstCall == CanCall /\ ops = 0

MeetsDifficulty(bits, digest) ==
    /\ FirstCall
    /\ LET header == Block_new(Zero32, <<>>, 1, bits, 0).header
           oracle == map_insert(EmptyMap, header_hash(header), digest)
       IN  last' = [op |-> "meets_difficulty",
                    arg |-> [bits |-> bits, digest |-> digest],
                    res |-> Ok, val |-> <<meets_difficulty(header, oracle)>>]
    /\ ops' = ops + 1
    /\ UNCHANGED <<ledger_vars, builder_vars, txm_vars, block_vars, mine_vars,
                   key_vars, node_vars, overflow_checks,
                   borrow>>

DifficultyToTarget(bits) ==
    /\ FirstCall
    /\ last' = [op |-> "difficulty_to_target", arg |-> bits, res |-> Ok,
                val |-> difficulty_to_target(bits)]
    /\ ops' = ops + 1
    /\ UNCHANGED <<ledger_vars, builder_vars, txm_vars, block_vars, mine_vars,
                   key_vars, node_vars, overflow_checks,
                   borrow>>

CalculateMerkleRoot(transactions) ==
    /\ FirstCall
    /\ last' = [op |-> "calculate_merkle_root", arg |-> transactions,
                res |-> Ok, val |-> calculate_merkle_root(transactions)]
    /\ ops' = ops + 1
    /\ UNCHANGED <<ledger_vars, builder_vars, txm_vars, block_vars, mine_vars,
                   key_vars, node_vars, overflow_checks,
                   borrow>>

\* The inputs, outputs and fees the transaction hash is taken of; the two
\* values of every field differ in one byte.
HashTxInputs ==
    [previous_output : [transaction_id : {"t1", "t2"}, output_index : {0, 1}],
     signature : {<<1>>, <<2>>}, public_key : {"pkA", "pkB"}, amount : {1, 2}]
HashTxOutputs ==
    [amount : {1, 2}, recipient_address : {"A", "B"},
     script_pubkey : {<<1>>, <<2>>}]
HashFees == {0, 1}

CreateTransactionHash(inputs, outputs, fee) ==
    /\ FirstCall
    /\ last' = [op |-> "create_transaction_hash",
                arg |-> [inputs |-> inputs, outputs |-> outputs, fee |-> fee],
                res |-> Ok,
                val |-> create_transaction_hash(inputs, outputs, fee)]
    /\ ops' = ops + 1
    /\ UNCHANGED <<ledger_vars, builder_vars, txm_vars, block_vars, mine_vars,
                   key_vars, node_vars, overflow_checks,
                   borrow>>

NockchainTransactionHash(inputs, outputs) ==
    /\ FirstCall
    /\ last' = [op |-> "NockchainTransaction::create_transaction_hash",
                arg |-> [inputs |-> inputs, outputs |-> outputs],
                res |-> Ok,
                val |-> NockchainTransaction_create_transaction_hash(
                            inputs, outputs)]
    /\ ops' = ops + 1
    /\ UNCHANGED <<ledger_vars, builder_vars, txm_vars, block_vars, mine_vars,
                   key_vars, node_vars, overflow_checks,
                   borrow>>

NextHash ==
    \/ \E bits \in BitsSamples \cup {InitialDifficulty} :
          \E digest \in DigestSamples(difficulty_to_target(bits)) :
             MeetsDifficulty(bits, digest)
    \/ \E bits \in BitsSamples \cup {InitialDifficulty} : DifficultyToTarget(bits)
    \/ \E transactions \in SeqsUpTo(MerklePool, MaxBlockTxs) :
          CalculateMerkleRoot(transactions)

SpecHash == Init /\ [][NextHash]_vars

\* The outputs of the hashed transactions: one amount and script, either
\* recipient.
HashOutputSamples ==
    {o \in HashTxOutputs : o.amount = 1 /\ o.script_pubkey = <<1>>}

NextTxHash ==
    \/ \E inputs \in SeqsUpTo(HashTxInputs, 1),
          outputs \in SeqsUpTo(HashOutputSamples, 2), fee \in HashFees :
          CreateTransactionHash(inputs, outputs, fee)
    \/ \E inputs \in SeqsUpTo(HashTxInputs, 1),
          outputs \in SeqsUpTo(HashOutputSamples, 2) :
          NockchainTransactionHash(inputs, outputs)

SpecTxHash == Init /\ [][NextTxHash]_vars

(***************************************************************************)
(* Address text form: to_string followed by from_string, and from_string   *)
(* of other texts.  One call per behaviour.                                *)
(***************************************************************************)
\* Byte strings of n bytes: z zero bytes, then bytes that step by m from b.
ByteSamples(n) ==
    {[i \in 1 .. n |-> IF i <= z THEN 0 ELSE (i * m + b) % 256] :
        z \in {0, 1, 2, n}, m \in {0, 7, 13}, b \in {1, 128, 255}}

\* Characters that are not of the alphabet: 0, I, O, l, space.
NotBase58 == {48, 73, 79, 108, 32}

AddressRoundTrip(public_key) ==
    /\ FirstCall
    /\ LET address == [public_key |-> public_key]
           text == to_string(address)
           back == from_string(text)
       IN  last' = [op |-> "to_string_from_string", arg |-> address,
                    res |-> back.res, val |-> back.val]
    /\ ops' = ops + 1
    /\ UNCHANGED <<ledger_vars, builder_vars, txm_vars, block_vars, mine_vars,
                   key_vars, node_vars, overflow_checks,
                   borrow>>

FromString(text) ==
    /\ FirstCall
    /\ LET r == from_string(text)
       IN  last' = [op |-> "from_string", arg |-> text, res |-> r.res,
                    val |-> r.val]
    /\ ops' = ops + 1
    /\ UNCHANGED <<ledger_vars, builder_vars, txm_vars, block_vars, mine_vars,
                   key_vars, node_vars, overflow_checks,
                   borrow>>

\* Texts that decode to 31 or 33 bytes.
WrongLengthTexts ==
    {bs58_encode(bytes) :
        bytes \in ByteSamples(AddressLen - 1) \cup ByteSamples(AddressLen + 1)}

\* Address texts with one character replaced by one that is not base58.
CorruptTexts ==
    {[bs58_encode(bytes) EXCEPT ![i] = c] :
        bytes \in ByteSamples(AddressLen), i \in {1, 2}, c \in NotBase58}

NextAddress ==
    \/ \E public_key \in ByteSamples(AddressLen) : AddressRoundTrip(public_key)
    \/ \E text \in WrongLengthTexts \cup CorruptTexts \cup {<<>>} :
          FromString(text)

SpecAddress == Init /\ [][NextAddress]_vars

(***************************************************************************)
(* Key manager actions.  key_log keeps the names registered by a           *)
(* successful generate_key or import_key and not removed since, and the    *)
(* names a successful remove_key has removed.                              *)
(***************************************************************************)
GenerateKey(name, secret) ==
    /\ CanCall
    /\ LET r == generate_key(KM, name, secret)
       IN  /\ keys' = r.km.keys
           /\ encrypted_storage' = r.km.encrypted_storage
           /\ last' = [op |-> "generate_key", arg |-> name, res |-> r.res,
                       val |-> r.val]
           /\ key_log' = IF r.res = Ok
                         THEN [key_log EXCEPT !.registered = @ \cup {name}]
                         ELSE key_log
    /\ ops' = ops + 1
    /\ UNCHANGED <<ledger_vars, builder_vars, txm_vars, block_vars, mine_vars,
                   node_vars, overflow_checks,
                   borrow>>

ImportKey(name, secret_bytes) ==
    /\ CanCall
    /\ LET r == import_key(KM, name, secret_bytes)
       IN  /\ keys' = r.km.keys
           /\ encrypted_storage' = r.km.encrypted_storage
           /\ last' = [op |-> "import_key", arg |-> name, res |-> r.res,
                       val |-> r.val]
           /\ key_log' = IF r.res = Ok
                         THEN [key_log EXCEPT !.registered = @ \cup {name}]
                         ELSE key_log
    /\ ops' = ops + 1
    /\ UNCHANGED <<ledger_vars, builder_vars, txm_vars, block_vars, mine_vars,
                   node_vars, overflow_checks,
                   borrow>>

ImportNockKey(name, noun_data) ==
    /\ CanCall
    /\ LET r == import_nock_key(KM, name, noun_data)
       IN  /\ keys' = r.km.keys
           /\ encrypted_storage' = r.km.encrypted_storage
           /\ last' = [op |-> "import_nock_key", arg |-> name, res |-> r.res,
                       val |-> r.val]
           /\ key_log' = IF r.res = Ok
                         THEN [key_log EXCEPT !.registered = @ \cup {name}]
                         ELSE key_log
    /\ ops' = ops + 1
    /\ UNCHANGED <<ledger_vars, builder_vars, txm_vars, block_vars, mine_vars,
                   node_vars, overflow_checks,
                   borrow>>

ImportNockchainKeys(keys_data) ==
    /\ CanCall
    /\ LET r == import_nockchain_keys(KM, keys_data)
       IN  /\ keys' = r.km.keys
           /\ encrypted_storage' = r.km.encrypted_storage
           /\ last' = [op |-> "import_nockchain_keys", arg |-> keys_data,
                       res |-> r.res, val |-> <<>>]
           /\ key_log' = [key_log EXCEPT !.registered =
                             @ \cup {imported_key_name(i) :
                                       i \in {j \in 0 .. Len(keys_data) :
                                                (j + 1) * SecretLen
                                                   <= Len(keys_data)}}]
    /\ ops' = ops + 1
    /\ UNCHANGED <<ledger_vars, builder_vars, txm_vars, block_vars, mine_vars,
                   node_vars, overflow_checks,
                   borrow>>

RemoveKey(name) ==
    /\ CanCall
    /\ LET r == remove_key(KM, name)
       IN  /\ keys' = r.km.keys
           /\ encrypted_storage' = r.km.encrypted_storage
           /\ last' = [op |-> "remove_key", arg |-> name, res |-> r.res,
                       val |-> <<>>]
           /\ key_log' = IF r.res = Ok
                         THEN [registered |-> key_log.registered \ {name},
                               removed |-> key_log.removed \cup {name}]
                         ELSE key_log
    /\ ops' = ops + 1
    /\ UNCHANGED <<ledger_vars, builder_vars, txm_vars, block_vars, mine_vars,
                   node_vars, overflow_checks,
                   borrow>>

GetKey(name) ==
    /\ CanCall
    /\ LET r == get_key(KM, name)
       IN  last' = [op |-> "get_key", arg |-> name, res |-> r.res, val |-> r.val]
    /\ ops' = ops + 1
    /\ UNCHANGED <<ledger_vars, builder_vars, txm_vars, block_vars, mine_vars,
                   key_vars, node_vars, overflow_checks,
                   borrow>>

SignWithKey(key_name, message) ==
    /\ CanCall
    /\ LET r == sign_with_key(KM, key_name, message)
       IN  last' = [op |-> "sign_with_key", arg |-> key_name, res |-> r.res,
                    val |-> r.val]
    /\ ops' = ops + 1
    /\ UNCHANGED <<ledger_vars, builder_vars, txm_vars, block_vars, mine_vars,
                   key_vars, node_vars, overflow_checks,
                   borrow>>

NextKeys ==
    \/ \E name \in KeyNames, secret \in RandomSecrets : GenerateKey(name, secret)
    \/ \E name \in KeyNames, secret_bytes \in SecretInputs :
          ImportKey(name, secret_bytes)
    \/ \E name \in KeyNames, noun_data \in NounInputs :
          ImportNockKey(name, noun_data)
    \/ \E keys_data \in KeysDataInputs : ImportNockchainKeys(keys_data)
    \/ \E name \in LookupNames : RemoveKey(name)
    \/ \E name \in LookupNames : GetKey(name)
    \/ \E name \in LookupNames, message \in Messages : SignWithKey(name, message)

SpecKeys == Init /\ [][NextKeys]_vars

(***************************************************************************)
(* Signing: a builder, a key manager and build_and_sign.  The bytes of the *)
(* transaction hash are revealed by the oracle.                            *)
(***************************************************************************)
\* The digests a transaction hash may be: bytes 0xab, bytes 0x09.
HexSamples == {[i \in 1 .. HashLen |-> 171], [i \in 1 .. HashLen |-> 9]}

BuildAndSign(key_name, digest) ==
    /\ CanCall
    /\ LET h == create_transaction_hash(builder.inputs, builder.outputs,
                                       builder.fee)
       IN  /\ h \in DOMAIN sha_oracle => digest = sha_oracle[h]
           /\ sha_oracle' = map_insert(sha_oracle, h, digest)
    /\ LET r == build_and_sign(builder, KM, key_name, sha_oracle',
                               overflow_checks)
       IN  last' = [op |-> "build_and_sign", arg |-> key_name, res |-> r.res,
                    val |-> r.val]
    /\ ops' = ops + 1
    /\ UNCHANGED <<ledger_vars, builder_vars, txm_vars, block, merkle_txs,
                   mine_vars, key_vars, node_vars, overflow_checks,
                   borrow>>

\* The builder is filled before the first call that counts in ops.
Filling == ops = 0

NextSign ==
    \/ \E input \in TransactionInputs :
          input.amount \in Amounts /\ Filling /\ AddInput(input)
    \/ \E output \in TransactionOutputs :
          output.amount \in Amounts /\ Filling /\ AddOutput(output)
    \/ \E fee \in {0, 1} : Filling /\ SetFee(fee)
    \/ \E secret \in RandomSecrets : GenerateKey("k1", secret)
    \/ \E key_name \in KeyNames, digest \in HexSamples :
          BuildAndSign(key_name, digest)

SpecSign == Init /\ [][NextSign]_vars

(***************************************************************************)
(* Ledger claims.                                                          *)
(***************************************************************************)
RECURSIVE SumAmounts(_)
\* The mathematical sum of the amounts of a set of stored Note ids.
SumAmounts(ids) ==
    IF ids = {} THEN 0
    ELSE LET id == CHOOSE x \in ids : TRUE
         IN  notes[id].amount + SumAmounts(ids \ {id})

UnspentOf(a, with_height) ==
    {id \in DOMAIN notes :
        /\ notes[id].address = a
        /\ ~notes[id].spent
        /\ is_some(notes[id].block_height) = with_height}

\* C1: at every point of a sequence of add_note / spend_note calls, for every
\* address the reported confirmed balance is the sum of the amounts of its
\* unspent Notes with block_height set, and the unconfirmed balance is the
\* sum of those without.
C1_BalanceMatchesUnspentNotes ==
    last.res # Panic =>
        \A a \in Addresses :
            /\ get_balance(BM, a).confirmed = SumAmounts(UnspentOf(a, TRUE))
            /\ get_balance(BM, a).unconfirmed = SumAmounts(UnspentOf(a, FALSE))

\* C2: a stored Note stays stored, changes only by spend_note setting its
\* spent flag, and a spent Note never becomes unspent again.
C2_NotesKeptSpentOneWay ==
    [][last'.res # Panic =>
        \A id \in DOMAIN notes :
            /\ id \in DOMAIN notes'
            /\ \/ notes'[id] = notes[id]
               \/ /\ last'.op = "spend_note"
                  /\ notes'[id] = [notes[id] EXCEPT !.spent = TRUE]
            /\ notes[id].spent => notes'[id].spent]_vars

\* C3: spend_note of an already spent Note returns the Transaction error and
\* spend_note of an unknown id returns the not-found error; in both cases the
\* Notes and the balance of every address are as they were before the call.
C3_FailedSpendChangesNothing ==
    [][last'.op = "spend_note" /\ ops' = ops + 1 =>
        LET id == last'.arg
        IN  /\ id \notin DOMAIN notes => last'.res = ErrNoteNotFound
            /\ (id \in DOMAIN notes /\ notes[id].spent) => last'.res = ErrNoteSpent
            /\ last'.res \in {ErrNoteNotFound, ErrNoteSpent} =>
                  /\ notes' = notes
                  /\ \A a \in Addresses :
                        get_balance([notes |-> notes',
                                     address_balances |-> address_balances'], a)
                        = get_balance(BM, a)]_vars

\* C3 witness: a spend of a stored, already spent Note has just been refused
\* while its address still holds a balance.
C3_Witness ==
    /\ last.op = "spend_note"
    /\ last.res = ErrNoteSpent
    /\ last.arg \in DOMAIN notes
    /\ notes[last.arg].spent
    /\ \E id \in DOMAIN notes : id # last.arg /\ ~notes[id].spent /\ notes[id].amount > 0

(***************************************************************************)
(* TransactionBuilder claims.                                              *)
(***************************************************************************)
RECURSIVE MathSum(_)
\* The mathematical (unbounded) sum of the amounts of a list.
MathSum(items) ==
    IF items = <<>> THEN 0 ELSE Head(items).amount + MathSum(Tail(items))

\* C4: for every builder state, also with no inputs or no outputs, validate()
\* fails with InsufficientFunds if and only if total_input < total_output + fee,
\* and then required = total_output + fee and available = total_input, the
\* totals being the sums of the amounts.
C4_InsufficientFundsIff ==
    last.op = "validate" =>
        /\ (last.res = InsufficientFunds) <=>
              (MathSum(builder.inputs) < MathSum(builder.outputs) + builder.fee)
        /\ last.res = InsufficientFunds =>
              last.val = [required |-> MathSum(builder.outputs) + builder.fee,
                          available |-> MathSum(builder.inputs)]

\* C5: when the mathematical sum of the outputs plus the fee exceeds the
\* mathematical sum of the inputs, validate() neither succeeds nor aborts:
\* it returns an error value.
C5_ConservationOfValue ==
    (last.op = "validate"
        /\ MathSum(builder.outputs) + builder.fee > MathSum(builder.inputs))
    => last.res \notin {Ok, Panic}

(***************************************************************************)
(* TransactionManager claims.                                              *)
(***************************************************************************)
InPending(tx_id) ==
    \E i \in 1 .. Len(pending_transactions) : pending_transactions[i].id = tx_id

\* C6: confirm_transaction(tx_id, h) on an id that is pending removes the
\* first matching record from pending, appends it at the end of confirmed
\* with status Confirmed{h} and confirmed_at set, and leaves every other
\* record of both collections in place and in order.
C6_ConfirmMovesFirstMatch ==
    [][\A tx_id \in TxIds, h \in Heights :
        (ConfirmTransaction(tx_id, h) /\ InPending(tx_id)) =>
            LET n == Len(pending_transactions)
                m == Len(confirmed_transactions)
                pos == CHOOSE i \in 1 .. n :
                          /\ pending_transactions[i].id = tx_id
                          /\ \A j \in 1 .. i - 1 : pending_transactions[j].id # tx_id
                moved == confirmed_transactions'[m + 1]
            IN  /\ last'.res = Ok
                /\ Len(pending_transactions') = n - 1
                /\ \A i \in 1 .. pos - 1 :
                      pending_transactions'[i] = pending_transactions[i]
                /\ \A i \in pos .. n - 1 :
                      pending_transactions'[i] = pending_transactions[i + 1]
                /\ Len(confirmed_transactions') = m + 1
                /\ \A i \in 1 .. m :
                      confirmed_transactions'[i] = confirmed_transactions[i]
                /\ moved.status = Confirmed(h)
                /\ moved.confirmed_at = Some(now)
                /\ [moved EXCEPT !.status = Pending, !.confirmed_at = None]
                       = pending_transactions[pos]]_vars

\* C6 witness: a confirmation has succeeded and left behind, after another
\* record, a later pending record of the same id, next to an older confirmed
\* record.
C6_Witness ==
    /\ last.op = "confirm_transaction"
    /\ last.res = Ok
    /\ Len(confirmed_transactions) = 2
    /\ confirmed_transactions[2].id = last.arg[1]
    /\ confirmed_transactions[2].status = Confirmed(last.arg[2])
    /\ Len(pending_transactions) = 1
    /\ pending_transactions[1].id = last.arg[1]
    /\ pending_transactions[1] #
          [confirmed_transactions[2] EXCEPT !.status = Pending,
                                            !.confirmed_at = None]

\* C7: confirm_transaction(tx_id, h) for an id that is not pending returns
\* the Transaction 'not found' error and leaves pending and confirmed as
\* they were.
C7_ConfirmUnknownChangesNothing ==
    [][\A tx_id \in TxIds, h \in Heights :
        (ConfirmTransaction(tx_id, h) /\ ~InPending(tx_id)) =>
            /\ last'.res = ErrTxNotFound
            /\ pending_transactions' = pending_transactions
            /\ confirmed_transactions' = confirmed_transactions]_vars

\* C7 witness: the confirmation of an id that is already confirmed (and no
\* longer pending) has just been refused while another record is pending.
C7_Witness ==
    /\ last.op = "confirm_transaction"
    /\ last.res = ErrTxNotFound
    /\ \E i \in 1 .. Len(confirmed_transactions) :
          confirmed_transactions[i].id = last.arg[1]
    /\ pending_transactions # <<>>

\* C8: when confirm_transaction succeeds for a transaction whose inputs spend
\* Notes held by the ledger, those Notes are spent after that same step.
C8_ConfirmSpendsNotes ==
    [][\A tx_id \in TxIds, h \in Heights :
        (ConfirmTransaction(tx_id, h) /\ last'.res = Ok) =>
            \A id \in DOMAIN notes :
                [transaction_id |-> notes[id].transaction_id,
                 output_index |-> notes[id].output_index] \in submitted[tx_id]
                => notes'[id].spent]_vars

(***************************************************************************)
(* Block claims.                                                           *)
(***************************************************************************)
TxComplete(tx) == tx.inputs # <<>> /\ tx.outputs # <<>>

\* C9: Block.validate() returns Ok exactly when the header meets its target,
\* the recomputed merkle root equals header.merkle_root and every
\* transaction has an input and an output; otherwise the error is, in this
\* order, the proof of work, the merkle root, then for the first incomplete
\* transaction its inputs before its outputs; and the block is not modified.
C9_ValidateVerdict ==
    [][(last'.op = "block_validate" /\ ops' = ops + 1) =>
        LET txs == block.transactions
            pow == meets_difficulty(block.header, sha_oracle')
            root == calculate_merkle_root(txs) = block.header.merkle_root
            bad == {i \in 1 .. Len(txs) : ~TxComplete(txs[i])}
            first == CHOOSE i \in bad : \A j \in bad : i <= j
        IN  /\ block' = block
            /\ (last'.res = Ok) <=> (pow /\ root /\ bad = {})
            /\ ~pow => last'.res = ErrInvalidPoW
            /\ (pow /\ ~root) => last'.res = ErrInvalidMerkle
            /\ (pow /\ root /\ bad # {}) =>
                  last'.res = IF txs[first].inputs = <<>>
                              THEN ErrTxNoInputs ELSE ErrTxNoOutputs]_vars

\* C9 witness: validate() has refused a block with a good proof of work and
\* merkle root whose first transaction lacks outputs and whose second lacks
\* inputs.
C9_Witness ==
    /\ last.op = "block_validate"
    /\ last.res = ErrTxNoOutputs
    /\ Len(block.transactions) = 2
    /\ block.transactions[1].inputs # <<>>
    /\ block.transactions[1].outputs = <<>>
    /\ block.transactions[2].inputs = <<>>

\* C10: for a block whose header meets the target, when a transaction has
\* been altered since the merkle root was computed and header.merkle_root
\* is still that root, validate() fails with 'Invalid merkle root'.
C10_AlteredTransactionDetected ==
    (/\ last.op = "block_validate"
     /\ meets_difficulty(block.header, sha_oracle)
     /\ block.header.merkle_root = calculate_merkle_root(merkle_txs)
     /\ block.transactions # merkle_txs)
    => last.res = ErrInvalidMerkle

(***************************************************************************)
(* Mining claims.                                                          *)
(***************************************************************************)
\* The digest of `header` has been computed and meets the target.
MeetsKnown(header, oracle) ==
    /\ header_hash(header) \in DOMAIN oracle
    /\ meets_difficulty(header, oracle)

\* C11: when mine() returns Ok on a block built by Block::new, the header as
\* mine left it meets its difficulty, mine changed nothing but header.nonce
\* and header.timestamp, and a validate() that follows immediately fails
\* neither the proof-of-work check nor the merkle-root check.
C11_MineThenValidate ==
    [][/\ (last'.op = "mine" /\ last'.res = Ok) =>
            /\ MeetsKnown(block'.header, sha_oracle')
            /\ block' = [mine_log'.entry EXCEPT
                            !.header.nonce = block'.header.nonce,
                            !.header.timestamp = block'.header.timestamp]
       /\ (last.op = "mine" /\ last.res = Ok /\ last'.op = "block_validate") =>
            last'.res \notin {ErrInvalidPoW, ErrInvalidMerkle}]_vars

\* C11 witness: validate() has run right after a mine() that failed a try,
\* refreshed the timestamp to a new clock reading, and then succeeded.
C11_Witness ==
    /\ last.op = "block_validate"
    /\ last.res = Ok
    /\ Len(mine_log.tried) >= 2
    /\ mine_log.tried[Len(mine_log.tried)].met
    /\ block.header.timestamp # mine_log.entry.header.timestamp
    /\ block.header.nonce # mine_log.entry.header.nonce

\* C12: mine() tries the nonces in ascending order from 0, stops at the first
\* try that meets the difficulty, and returns the Consensus error only after
\* every value from 0 through the maximum of the nonce type has been tried.
C12_MineCoversFullRange ==
    last.op = "mine" =>
        LET tried == mine_log.tried
        IN  /\ \A i \in 1 .. Len(tried) : tried[i].nonce = i - 1
            /\ \A i \in 1 .. Len(tried) - 1 : ~tried[i].met
            /\ last.res = Ok => tried # <<>> /\ tried[Len(tried)].met
            /\ last.res = ErrConsensus =>
                  /\ \A i \in 1 .. Len(tried) : ~tried[i].met
                  /\ {tried[i].nonce : i \in 1 .. Len(tried)} = 0 .. MaxU64

\* The number of tries within which mine() has to observe a stop request.
StopLatency == 1

\* C13: once a stop is requested while mine() runs, mine() returns within a
\* bounded number of nonce tries.
C13_MineObservesStop ==
    mine_log.after_stop <= StopLatency

(***************************************************************************)
(* Claims about the block functions.                                       *)
(***************************************************************************)
\* h is at most t in the lexicographic order of byte strings.
LexLeq(h, t) ==
    \/ h = t
    \/ \E i \in 1 .. HashLen :
          /\ h[i] < t[i]
          /\ \A j \in 1 .. i - 1 : h[j] = t[j]

\* C14: meets_difficulty() is true exactly when the 32-byte header hash is
\* lexicographically at most the decoded target, the first differing byte
\* deciding and a hash equal to the target meeting it.
C14_MeetsIffLexLeq ==
    last.op = "meets_difficulty" =>
        last.val[1] = LexLeq(last.arg.digest,
                             difficulty_to_target(last.arg.bits))

\* C14 witness: meets_difficulty() has returned true for a hash equal to a
\* non-zero target.
C14_Witness ==
    /\ last.op = "meets_difficulty"
    /\ last.val[1]
    /\ last.arg.digest = difficulty_to_target(last.arg.bits)
    /\ last.arg.digest # Zero32

\* Base-256 digit d of the mantissa m scaled by 256^(e-3), rounded down.
ScaledDigit(m, e, d) ==
    LET k == d - (e - 3)
    IN  IF k \in 0 .. 2 THEN (m \div (256 ^ k)) % 256 ELSE 0

\* C15: for bits with exponent e < 32 and mantissa m, the decoded target is
\* the 32-byte big-endian number floor(m * 256^(e-3)), no index written lies
\* outside the buffer, and 0x1d00ffff decodes to bytes 4 and 5 equal to 0xff
\* and every other byte zero.
C15_TargetIsScaledMantissa ==
    last.op = "difficulty_to_target" =>
        LET bits == last.arg
            e == bits \div 16777216
            m == bits % 16777216
        IN  e < 32 =>
              /\ DOMAIN last.val = 1 .. HashLen
              /\ \A i \in 1 .. HashLen :
                    last.val[i] = ScaledDigit(m, e, HashLen - i)
              /\ target_writes(bits) \subseteq 0 .. HashLen - 1
              /\ bits = InitialDifficulty =>
                    last.val = [i \in 1 .. HashLen |->
                                   IF i \in {5, 6} THEN 255 ELSE 0]

\* C15 witness: a target with exponent 31 and a mantissa of three non-zero
\* bytes has been decoded.
C15_Witness ==
    /\ last.op = "difficulty_to_target"
    /\ last.arg = 31 * 16777216 + 1193046
    /\ last.val[2] = 18 /\ last.val[3] = 52 /\ last.val[4] = 86

\* tx.hash truncated or zero-padded to 32 bytes.
PadTruncate(h) ==
    IF is_digest(h) THEN h ELSE SubSeq(h \o Zero32, 1, HashLen)

\* C16: the merkle root of no transactions is 32 zero bytes, the root of one
\* transaction is its hash truncated or zero-padded to 32 bytes, and the
\* root depends on the transactions' hashes only: overwriting any other
\* field of any transaction leaves it the same.
C16_MerkleBaseAndHashOnly ==
    last.op = "calculate_merkle_root" =>
        LET txs == last.arg
        IN  /\ txs = <<>> => last.val = Zero32
            /\ Len(txs) = 1 => last.val = PadTruncate(txs[1].hash)
            /\ \A i \in 1 .. Len(txs), field \in TxFields \ {"hash"} :
                  \A value \in FieldValues(field) :
                     calculate_merkle_root([txs EXCEPT ![i][field] = value])
                        = last.val

\* C16 witness: the root of a single transaction with a 33-byte hash.
C16_Witness ==
    /\ last.op = "calculate_merkle_root"
    /\ Len(last.arg) = 1
    /\ Len(last.arg[1].hash) = HashLen + 1
    /\ Len(last.val) = HashLen

\* The transactions of txs in the order p.
Permuted(txs, p) == [i \in 1 .. Len(txs) |-> txs[p[i]]]

\* C17: for at least two transactions with pairwise distinct hashes, every
\* permutation that changes the sequence changes the merkle root.
C17_ReorderingChangesRoot ==
    (/\ last.op = "calculate_merkle_root"
     /\ Len(last.arg) >= 2
     /\ \A i, j \in 1 .. Len(last.arg) :
           i # j => last.arg[i].hash # last.arg[j].hash)
    => \A p \in Permutations(1 .. Len(last.arg)) :
          Permuted(last.arg, p) # last.arg
             => calculate_merkle_root(Permuted(last.arg, p)) # last.val

\* C17 amended: the same for transactions whose hashes are pairwise distinct
\* after truncation or zero-padding to 32 bytes.
C17_ReorderingChangesRootDistinctLeaves ==
    (/\ last.op = "calculate_merkle_root"
     /\ Len(last.arg) >= 2
     /\ \A i, j \in 1 .. Len(last.arg) :
           i # j => PadTruncate(last.arg[i].hash) # PadTruncate(last.arg[j].hash))
    => \A p \in Permutations(1 .. Len(last.arg)) :
          Permuted(last.arg, p) # last.arg
             => calculate_merkle_root(Permuted(last.arg, p)) # last.val

\* C17 witness: the root of three transactions with distinct leaves, one of
\* them a hash of plain bytes.
C17_Witness ==
    /\ last.op = "calculate_merkle_root"
    /\ Len(last.arg) = 3
    /\ \A i, j \in 1 .. 3 :
          i # j => PadTruncate(last.arg[i].hash) # PadTruncate(last.arg[j].hash)
    /\ \E i \in 1 .. 3 : ~is_digest(last.arg[i].hash)

(***************************************************************************)
(* Claims about get_spendable_notes and add_note.                          *)
(***************************************************************************)
\* C18: in every reachable ledger state every Note that
\* get_spendable_notes(address, amount) may return is owned by address, is
\* not spent, not locked and has a block_height, and no Note that
\* spend_note has spent is returned again.
C18_SpendableNotesAreSpendable ==
    \A address \in Addresses, amount \in Amounts :
       \A result \in get_spendable_notes(BM, address, amount) :
          \A i \in 1 .. Len(result) :
             /\ result[i].address = address
             /\ ~result[i].spent
             /\ ~result[i].locked
             /\ is_some(result[i].block_height)
             /\ result[i].id \notin spent_ids

RECURSIVE SumOfNotes(_)
\* The mathematical sum of the amounts of a sequence of Notes.
SumOfNotes(ns) ==
    IF ns = <<>> THEN 0 ELSE ns[1].amount + SumOfNotes(Tail(ns))

\* C19: when the spendable Notes of address sum to at least amount,
\* get_spendable_notes(address, amount) returns them largest first up to
\* the first Note with which the sum reaches amount, and no Note more.
C19_SelectionBoundedByAmount ==
    last.op = "get_spendable_notes" =>
        LET result == last.val
            amount == last.arg.amount
            all == CHOOSE r \in get_spendable_notes(BM, last.arg.address, amount) : TRUE
            n == Len(result)
        IN  SumOfNotes(all) >= amount =>
              /\ SumOfNotes(result) >= amount
              /\ \A i \in 1 .. n - 1 : result[i].amount >= result[i + 1].amount
              /\ \A i \in 1 .. Len(all) :
                    (\A j \in 1 .. n : result[j].id # all[i].id)
                       => \A j \in 1 .. n : all[i].amount <= result[j].amount
              /\ n > 0 => SumOfNotes(result) - result[n].amount < amount

\* C20: add_note(note) returns Ok and stores the Note; the owner's confirmed
\* (block_height set) or unconfirmed balance grows by note.amount; the
\* owner's other bucket and locked, the Balance of every other address and
\* every other stored Note stay as they were.
C20_AddNoteFrame ==
    [][(last'.op = "add_note" /\ ops' = ops + 1) =>
        LET id == last'.arg
            note == notes'[id]
            before == get_balance(BM, note.address)
            after == address_balances'[note.address]
            bucket == bucket_of(note)
        IN  /\ last'.res = Ok
            /\ id \in DOMAIN notes'
            /\ after[bucket] = before[bucket] + note.amount
            /\ \A b \in {"confirmed", "unconfirmed", "locked"} \ {bucket} :
                  after[b] = before[b]
            /\ \A a \in DOMAIN address_balances' \ {note.address} :
                  /\ a \in DOMAIN address_balances
                  /\ address_balances'[a] = address_balances[a]
            /\ DOMAIN notes' = DOMAIN notes \cup {id}
            /\ \A other \in DOMAIN notes \ {id} : notes'[other] = notes[other]]_vars

\* C21: a successful spend_note(id) on a stored unspent Note sets only that
\* Note's spent flag, lowers only the owner's bucket that the Note counts in
\* by the Note's amount, stopping at 0, and leaves the other bucket, locked,
\* every other address's Balance and every other Note as they were.
C21_SpendNoteFrame ==
    [][(/\ last'.op = "spend_note" /\ ops' = ops + 1
        /\ last'.res = Ok
        /\ last'.arg \in DOMAIN notes
        /\ ~notes[last'.arg].spent) =>
        LET id == last'.arg
            note == notes[id]
            bucket == IF note.block_height = None THEN "unconfirmed"
                      ELSE "confirmed"
            before == address_balances[note.address][bucket]
        IN  /\ DOMAIN notes' = DOMAIN notes
            /\ \A f \in DOMAIN note \ {"spent"} : notes'[id][f] = note[f]
            /\ notes'[id].spent
            /\ \A other \in DOMAIN notes \ {id} : notes'[other] = notes[other]
            /\ DOMAIN address_balances' = DOMAIN address_balances
            /\ address_balances'[note.address][bucket] =
                  IF before >= note.amount THEN before - note.amount ELSE 0
            /\ \A b \in {"confirmed", "unconfirmed", "locked"} \ {bucket} :
                  address_balances'[note.address][b] =
                     address_balances[note.address][b]
            /\ \A a \in DOMAIN address_balances \ {note.address} :
                  address_balances'[a] = address_balances[a]]_vars

\* C21 witness: spend_note has spent one of two Notes that count in the same
\* bucket, and the amount of the other is still in the bucket.
C21_Witness ==
    /\ last.op = "spend_note"
    /\ last.res = Ok
    /\ \E other \in DOMAIN notes \ {last.arg} :
          /\ ~notes[other].spent
          /\ notes[other].address = notes[last.arg].address
          /\ bucket_of(notes[other]) = bucket_of(notes[last.arg])
          /\ address_balances[notes[other].address][bucket_of(notes[other])]
                = notes[other].amount

(***************************************************************************)
(* Key manager claims.                                                     *)
(***************************************************************************)
\* C22: generate_key(name) fails with KeyExists whenever name is registered,
\* and then leaves the key pair registered under name as it was.
C22_GenerateKeyRefusesRegisteredName ==
    [][(/\ last'.op = "generate_key" /\ ops' = ops + 1
        /\ last'.arg \in key_log.registered) =>
        /\ last'.res = ErrKeyExists
        /\ keys' = keys]_vars

\* C23: get_key(name) and sign_with_key(name, msg) succeed exactly when name
\* was registered and not removed since and fail with KeyNotFound otherwise;
\* remove_key of an absent name fails with KeyNotFound and changes nothing;
\* an import_key that fails registers nothing.
C23_KeyRegistryLifecycle ==
    [][(ops' = ops + 1) =>
        /\ last'.op \in {"get_key", "sign_with_key"} =>
              /\ last'.arg \in key_log.registered => last'.res = Ok
              /\ last'.arg \notin key_log.registered => last'.res = ErrKeyNotFound
              /\ keys' = keys
        /\ (last'.op = "remove_key" /\ last'.arg \notin key_log.registered) =>
              /\ last'.res = ErrKeyNotFound
              /\ keys' = keys /\ encrypted_storage' = encrypted_storage
        /\ (last'.op = "import_key" /\ last'.res # Ok) =>
              /\ keys' = keys /\ encrypted_storage' = encrypted_storage]_vars

\* C23 witness: sign_with_key has failed with KeyNotFound for a name that
\* was registered and then removed.
C23_Witness ==
    /\ last.op = "sign_with_key"
    /\ last.res = ErrKeyNotFound
    /\ last.arg \in key_log.removed
    /\ last.arg \notin key_log.registered

(***************************************************************************)
(* Signing claims.                                                         *)
(***************************************************************************)
HexDigits == <<48, 49, 50, 51, 52, 53, 54, 55, 56, 57, 97, 98, 99, 100, 101, 102>>
\* The lower-case hexadecimal text of a byte string.
LowerHex(bytes) ==
    [i \in 1 .. 2 * Len(bytes) |->
        IF i % 2 = 1 THEN HexDigits[(bytes[(i + 1) \div 2] \div 16) + 1]
        ELSE HexDigits[(bytes[i \div 2] % 16) + 1]]

\* C24: build_and_sign returns an error and no SignedTransaction whenever
\* validate() fails or the named key is absent; a SignedTransaction it
\* returns has inputs and outputs, total_input >= total_output + fee, the
\* builder's inputs, outputs and fee, the hash create_transaction_hash gives
\* for them and the lower-case hex text of that hash as id; the builder is
\* not modified.
C24_BuildAndSignFaithful ==
    [][(last'.op = "build_and_sign" /\ ops' = ops + 1) =>
        LET v == validate(builder, overflow_checks)
            tx == last'.val
        IN  /\ builder' = builder
            /\ v.res # Ok => last'.res # Ok /\ last'.res = v.res
            /\ (v.res = Ok /\ last'.arg \notin key_log.registered) =>
                  last'.res = ErrKeyNotFound
            /\ last'.res # Ok =>
                  (last'.val = <<>> \/ "id" \notin DOMAIN last'.val)
            /\ last'.res = Ok =>
                  /\ tx.inputs # <<>> /\ tx.outputs # <<>>
                  /\ MathSum(tx.inputs) >= MathSum(tx.outputs) + tx.fee
                  /\ tx.inputs = builder.inputs
                  /\ tx.outputs = builder.outputs
                  /\ tx.fee = builder.fee
                  /\ tx.hash = create_transaction_hash(builder.inputs,
                                                       builder.outputs,
                                                       builder.fee)
                  /\ tx.id = LowerHex(sha_oracle'[tx.hash])]_vars

\* The number of fields in which two inputs differ.
InputDifference(a, b) ==
    Cardinality({f \in {"transaction_id", "output_index"} :
                    a.previous_output[f] # b.previous_output[f]})
    + Cardinality({f \in {"signature", "public_key", "amount"} : a[f] # b[f]})

\* The number of fields in which two outputs differ.
OutputDifference(a, b) ==
    Cardinality({f \in {"amount", "recipient_address", "script_pubkey"} :
                    a[f] # b[f]})

\* C25: create_transaction_hash is sensitive to every field: changing one
\* byte of one field of one input (source transaction id, output index,
\* signature, public key, amount), of one field of one output (amount,
\* recipient address, script) or of the fee changes the hash.  This is said
\* of both functions of that name: the one of NockchainKeyManager, which
\* takes the fee, and the one of NockchainTransaction, which takes none.
C25_HashSensitiveToEveryField ==
    /\ last.op = "create_transaction_hash" =>
        LET inputs == last.arg.inputs
            outputs == last.arg.outputs
            fee == last.arg.fee
        IN  /\ \A i \in DOMAIN inputs : \A v \in HashTxInputs :
                  InputDifference(inputs[i], v) = 1 =>
                     create_transaction_hash([inputs EXCEPT ![i] = v],
                                             outputs, fee) # last.val
            /\ \A i \in DOMAIN outputs : \A v \in HashTxOutputs :
                  OutputDifference(outputs[i], v) = 1 =>
                     create_transaction_hash(inputs,
                                             [outputs EXCEPT ![i] = v],
                                             fee) # last.val
            /\ \A f \in HashFees \ {fee} :
                  create_transaction_hash(inputs, outputs, f) # last.val
    /\ last.op = "NockchainTransaction::create_transaction_hash" =>
        LET inputs == last.arg.inputs
            outputs == last.arg.outputs
        IN  /\ \A i \in DOMAIN inputs : \A v \in HashTxInputs :
                  InputDifference(inputs[i], v) = 1 =>
                     NockchainTransaction_create_transaction_hash(
                         [inputs EXCEPT ![i] = v], outputs) # last.val
            /\ \A i \in DOMAIN outputs : \A v \in HashTxOutputs :
                  OutputDifference(outputs[i], v) = 1 =>
                     NockchainTransaction_create_transaction_hash(
                         inputs, [outputs EXCEPT ![i] = v]) # last.val

(***************************************************************************)
(* Transaction listing.                                                    *)
(***************************************************************************)
\* C26: get_all_transactions returns every pending and every confirmed
\* record exactly once, newest created_at first, and leaves both
\* collections unchanged.
C26_GetAllTransactionsComplete ==
    [][last'.op = "get_all_transactions" =>
        LET all == pending_transactions \o confirmed_transactions
            listed == last'.val
        IN  /\ Len(listed) = Len(all)
            /\ \E p \in Permutations(1 .. Len(all)) : listed = Permuted(all, p)
            /\ \A i, j \in DOMAIN listed :
                  i < j => listed[i].created_at >= listed[j].created_at
            /\ pending_transactions' = pending_transactions
            /\ confirmed_transactions' = confirmed_transactions]_vars

\* A listing of a pending and a confirmed record created at different times,
\* the stored order being the oldest first.
C26_Witness ==
    /\ last.op = "get_all_transactions"
    /\ pending_transactions # <<>>
    /\ confirmed_transactions # <<>>
    /\ pending_transactions[1].created_at
          < confirmed_transactions[1].created_at
    /\ Len(last.val) = Len(pending_transactions) + Len(confirmed_transactions)

(***************************************************************************)
(* Address text form.                                                      *)
(***************************************************************************)
\* C27: from_string(a.to_string()) is a for every 32-byte address a, and
\* from_string fails with InvalidAddress on a text with a character that is
\* not base58 and on a text that decodes to a length other than 32.
C27_AddressRoundTrip ==
    /\ last.op = "to_string_from_string" =>
          last.res = Ok /\ last.val = last.arg
    /\ (/\ last.op = "from_string"
        /\ \/ \E i \in DOMAIN last.arg : last.arg[i] \in NotBase58
           \/ last.arg \in WrongLengthTexts \cup {<<>>})
       => last.res = ErrInvalidAddress

\* An address that starts with a zero byte went to text and back.
C27_Witness ==
    /\ last.op = "to_string_from_string"
    /\ last.arg.public_key[1] = 0
    /\ last.arg.public_key[AddressLen] # 0
    /\ last.res = Ok

(***************************************************************************)
(* Reads.                                                                  *)
(***************************************************************************)
\* The stored Notes of an address in a bucket that are not spent.
UnspentIn(a, bucket) ==
    {id \in DOMAIN notes :
        notes[id].address = a /\ ~notes[id].spent
        /\ bucket_of(notes[id]) = bucket}

\* The calls that take `&self`.
ReadOps == {"get_balance", "get_spendable_notes", "get_all_transactions"}

RECURSIVE MathTotal(_, _)
\* The mathematical sum of one field of the Balances of a set of addresses.
MathTotal(as, field) ==
    IF as = {} THEN 0
    ELSE LET a == CHOOSE x \in as : TRUE
         IN  address_balances[a][field] + MathTotal(as \ {a}, field)

\* C29: add_note, Balance.total() and get_total_balance() return a value
\* and never abort, and what they report is never wrapped around: the
\* bucket grows by the amount of the Note, total() is confirmed +
\* unconfirmed and get_total_balance() is the sum over the addresses, or the
\* call returns an error.
C29_LedgerArithmeticNeverAborts ==
    [][ops' = ops + 1 =>
        /\ last'.op \in {"add_note", "balance_total", "get_total_balance"} =>
              last'.res # Panic
        /\ (last'.op = "add_note" /\ last'.res = Ok) =>
              \A a \in DOMAIN address_balances' :
                 \A field \in {"confirmed", "unconfirmed"} :
                    address_balances'[a][field]
                       >= get_balance(BM, a)[field]
        /\ (last'.op = "balance_total" /\ last'.res = Ok) =>
              last'.val = get_balance(BM, last'.arg).confirmed
                          + get_balance(BM, last'.arg).unconfirmed
        /\ (last'.op = "get_total_balance" /\ last'.res = Ok) =>
              \A field \in {"confirmed", "unconfirmed", "locked"} :
                 last'.val[field] = MathTotal(DOMAIN address_balances, field)
      ]_vars

(***************************************************************************)
(* validate(), case by case.                                               *)
(***************************************************************************)
\* C30: validate() returns Ok if and only if inputs is non-empty, outputs
\* is non-empty and total_input >= total_output + fee; with no inputs it
\* fails with 'No inputs provided' whatever the outputs and the fee; with
\* inputs and no outputs it fails with 'No outputs provided' whatever the
\* amounts.
C30_ValidateOkIff ==
    last.op = "validate" =>
        /\ (last.res = Ok) <=>
              /\ builder.inputs # <<>>
              /\ builder.outputs # <<>>
              /\ MathSum(builder.inputs)
                    >= MathSum(builder.outputs) + builder.fee
        /\ builder.inputs = <<>> => last.res = ErrNoInputs
        /\ (builder.inputs # <<>> /\ builder.outputs = <<>>) =>
              last.res = ErrNoOutputs

(***************************************************************************)
(* Node runner claims.                                                     *)
(***************************************************************************)
\* C31: of two node runners with the same data directory, at most one is
\* running at any time, whatever the interleaving of the steps of their
\* start_node and stop_node calls.
C31_AtMostOneRunning ==
    \A r1, r2 \in Runners :
        (runner[r1].is_running /\ runner[r2].is_running) => r1 = r2

\* C32: when start_node fails because acquire found a lockfile owned by
\* another live process, that lockfile still exists with the same content
\* after start_node has returned.
C32_FailedAcquireKeepsLockfile ==
    [][(last'.op = "start_node" /\ last'.res = ErrInstanceRunning
          /\ \E r \in Runners :
                runner[r].pc = "acquire_failed" /\ runner'[r].pc = "idle"
                /\ lockfile_exists(fs))
       => fs'.lock = fs.lock]_vars

\* C33: start_node on a running runner and stop_node on a stopped one each
\* return a Network error and change nothing; after every return of
\* start_node or stop_node the runner holds a lockfile exactly when
\* is_running is true; an error path of start_node taken after the lockfile
\* was acquired removes the lockfile and leaves is_running false.
C33_StartStopProtocol ==
    [][\A r \in Runners :
        (last' # last /\ last'.arg = r
           /\ last'.res \notin {Poll_Pending, Dropped}) =>
            /\ (last'.op = "start_node" /\ runner[r].pc = "idle"
                  /\ runner[r].is_running) =>
                  /\ last'.res = ErrAlreadyRunning
                  /\ runner' = runner /\ fs' = fs
            /\ (last'.op = "stop_node" /\ runner[r].pc = "idle"
                  /\ ~runner[r].is_running) =>
                  /\ last'.res = ErrNotRunning
                  /\ runner' = runner /\ fs' = fs
            /\ runner'[r].pc = "idle"
            /\ runner'[r].lockfile <=> runner'[r].is_running
            /\ (last'.op = "start_node" /\ last'.res # Ok
                  /\ runner[r].pc \in {"take", "drop"}) =>
                  /\ ~runner'[r].is_running
                  /\ ~runner'[r].lockfile
                  /\ ~lockfile_exists(fs')
      ]_vars

\* C34: start_node on a stopped runner whose data_dir does not exist yet,
\* with a writable parent, creates the directory and ends with the node
\* running.
C34_FirstStartOnFreshDataDir ==
    [][\A r \in Runners :
        (last' # last /\ last'.op = "start_node" /\ last'.arg = r
           /\ last'.res \notin {Poll_Pending, Dropped}
           /\ runner[r].pc # "idle" /\ runner[r].fresh
           /\ fs.writable /\ fs.pma_ok) =>
            /\ last'.res = Ok
            /\ fs'.data_dir = "dir"
            /\ runner'[r].is_running
      ]_vars

\* C35: the status machine of NockchainNodeManager.  start_node on a Running
\* or Starting manager returns Ok and changes nothing; stop_node on a
\* Stopped or Stopping manager returns Ok and changes nothing; any other
\* start_node shows Starting while it is suspended, ends Running when it
\* returns Ok and Error when it returns Err; any other stop_node ends
\* Stopped; once a call is over, a start_node whose future was dropped
\* included, the status is neither Starting nor Stopping.
C35_ManagerStatusMachine ==
    [][(last' # last) =>
        /\ (last'.op = "manager.start_node" /\ manager.pc = "idle"
              /\ manager.status \in {Running, Starting}) =>
              (last'.res = Ok /\ manager' = manager /\ fs' = fs)
        /\ (last'.op = "manager.start_node"
              /\ ~(manager.pc = "idle"
                     /\ manager.status \in {Running, Starting})) =>
              /\ last'.res = Poll_Pending => manager'.status = Starting
              /\ last'.res = Ok => manager'.status = Running
              /\ last'.res \notin {Poll_Pending, Ok, Dropped} =>
                    manager'.status[1] = "Error"
        /\ (last'.op = "manager.stop_node") =>
              /\ last'.res = Ok
              /\ IF manager.status \in {Stopped, Stopping}
                 THEN manager' = manager
                 ELSE manager'.status = Stopped
        /\ (last'.op \in {"manager.start_node", "manager.stop_node"}
              /\ manager'.pc = "idle") =>
              manager'.status \notin {Starting, Stopping}
      ]_vars

\* C36: whenever the start handler's task sets the displayed status to
\* Running, the manager's status is Running and that start's initialisation
\* ran to completion: the step is the last poll of a suspended start_node.
C36_DisplayedRunningIsRunning ==
    [][(desktop'.node_status = Running /\ desktop.node_status # Running) =>
        /\ manager'.status = Running
        /\ manager.pc = "awaiting"
        /\ manager'.pc = "idle"
        /\ last'.res = Ok
      ]_vars

\* A buffer holds exactly the most recent entries, in insertion order: the
\* numbers up to that of the last add_log call, as many as the cap allows.
MostRecent(buf, cap) ==
    /\ Len(buf) <= cap
    /\ buf # <<>> =>
          /\ Len(buf) = (IF buf[Len(buf)] < cap THEN buf[Len(buf)] ELSE cap)
          /\ \A i \in 1..Len(buf) : buf[i] = buf[Len(buf)] - Len(buf) + i

\* A get_logs result: at most limit entries, the newest first, each the
\* entry next older than the one before it.
NewestFirst(res, buf, limit) ==
    /\ Len(res) = (IF limit < Len(buf) THEN limit ELSE Len(buf))
    /\ Len(res) <= limit
    /\ \A i \in 1..Len(res) : res[i] = buf[Len(buf)] - i + 1

\* C37: the manager's buffer never holds more than 1000 entries and the
\* runner's never more than 100, each exactly the most recent entries in
\* insertion order; get_logs(limit) returns at most limit entries (100 for
\* the manager when no limit is given), newest first, and leaves the buffer
\* unchanged.
C37_LogBuffersBoundedFifo ==
    [][/\ MostRecent(logs'.manager, ManagerLogCap)
       /\ \A r \in Runners : MostRecent(logs'.runner[r], RunnerLogCap)
       /\ (last' # last /\ last'.op = "manager.add_log") =>
             logs'.manager[Len(logs'.manager)] = last'.arg
       /\ (last' # last /\ last'.op = "runner.add_log") =>
             LET buf == logs'.runner[last'.arg[1]]
             IN  buf[Len(buf)] = last'.arg[2]
       /\ (last' # last /\ last'.op = "manager.get_logs") =>
             /\ logs' = logs
             /\ NewestFirst(last'.val, logs.manager,
                            IF last'.arg = <<>> THEN 100 ELSE last'.arg[1])
       /\ (last' # last /\ last'.op = "runner.get_logs") =>
             /\ logs' = logs
             /\ NewestFirst(last'.val, logs.runner[last'.arg[1]],
                            last'.arg[2])
      ]_vars

\* The manager's buffer is full and has dropped its oldest entries, and a
\* get_logs call with a limit below its length has returned.
C37_Witness ==
    /\ Len(logs.manager) = ManagerLogCap
    /\ logs.manager[1] > 1
    /\ last.op = "manager.get_logs"
    /\ last.arg = <<50>>
    /\ Len(last.val) = 50

\* The sequence with its last transaction appended once more.
LastRepeated(transactions) ==
    Append(transactions, transactions[Len(transactions)])

\* C38: for every transaction sequence of odd length n >= 3 the merkle root
\* equals the root of the sequence with its last transaction appended once
\* more, so a block whose transactions are replaced by the longer sequence,
\* with the header unchanged, passes the merkle check of validate() as
\* before.
C38_MerkleOddDuplication ==
    (last.op = "calculate_merkle_root" /\ Len(last.arg) >= 3
       /\ Len(last.arg) % 2 = 1) =>
        LET b == Block_new(Zero32, last.arg, 1, InitialDifficulty, 0)
            extended == [b EXCEPT !.transactions = LastRepeated(last.arg)]
            oracle == map_insert(EmptyMap, header_hash(b.header), Zero32)
        IN  /\ last.val = calculate_merkle_root(LastRepeated(last.arg))
            /\ b.header.merkle_root = last.val
            /\ extended.header = b.header
            /\ block_validate(b, oracle) # ErrInvalidMerkle
            /\ block_validate(extended, oracle) = block_validate(b, oracle)

\* The root of three transactions with three different hashes was computed.
C38_Witness ==
    /\ last.op = "calculate_merkle_root"
    /\ Len(last.arg) = 3
    /\ last.arg[1].hash # last.arg[2].hash
    /\ last.arg[2].hash # last.arg[3].hash
    /\ last.arg[1].hash # last.arg[3].hash
    /\ last.val = calculate_merkle_root(LastRepeated(last.arg))

\* The ids of the records of a list, and whether none occurs twice.
IdsOf(items) == {items[i].id : i \in DOMAIN items}
DistinctIds(items) ==
    \A i, j \in DOMAIN items : items[i].id = items[j].id => i = j

\* C39: a transaction id is confirmed at most once: no id is in both
\* pending_transactions and confirmed_transactions, none occurs twice in
\* either collection, and a confirm_transaction of an id that is already
\* confirmed fails.
C39_ConfirmedAtMostOnce ==
    [][/\ IdsOf(pending_transactions') \cap IdsOf(confirmed_transactions') = {}
       /\ DistinctIds(pending_transactions')
       /\ DistinctIds(confirmed_transactions')
       /\ (last'.op = "confirm_transaction"
             /\ (last' # last \/ pending_transactions' # pending_transactions)
             /\ last'.arg[1] \in IdsOf(confirmed_transactions)) =>
             last'.res = ErrTxNotFound
      ]_vars

\* C40: every stored Note's address has an entry in address_balances, so
\* spend_note never returns the Storage error 'Address balance not found',
\* and a spend_note that returns an error has not set the spent flag.
C40_BalanceEntryForEveryNote ==
    [][/\ \A id \in DOMAIN notes' :
             notes'[id].address \in DOMAIN address_balances'
       /\ last'.res # ErrBalanceNotFound
       /\ (last'.op = "spend_note" /\ last'.res # Ok) => notes' = notes
      ]_vars

\* spend_note has spent a stored Note and updated its address balance.
C40_Witness ==
    /\ last.op = "spend_note"
    /\ last.res = Ok
    /\ notes[last.arg].spent
    /\ notes[last.arg].address \in DOMAIN address_balances

=============================================================================
